---- MODULE Spec2Model ----
(***************************************************************************)
(* AgentBasis TypeScript SDK: client lifecycle (init / shutdown), the      *)
(* span controller of the transport (startLLMSpan / endLLMSpan) and the    *)
(* provider instrumentation wrappers, as state machines.                   *)
(*                                                                         *)
(* Execution model: single-threaded and cooperative.  Every action below   *)
(* is one synchronous run of code between two suspension points (await,    *)
(* yield, promise reaction); actions of different logical operations       *)
(* interleave freely.                                                      *)
(***************************************************************************)
EXTENDS Integers, Sequences, FiniteSets, TLC

\* ---------------------------------------------------------------- bounds
MaxInstances == 2      \* AgentBasis instances constructed in one run
MaxCalls == 2          \* shutdown() invocations in one run
MaxInits == 3          \* init() invocations in one run
MaxSpans == 2          \* spans started in one run
MaxEndCalls == 2       \* endLLMSpan invocations on one span
MaxChunks == 2         \* chunks one stream yields
MaxPulls == 1          \* next() calls on a generator that has finished
MaxTrees == 2          \* call trees running interleaved
MaxDepth == 2          \* withContext scopes nested in one call tree
MaxFlushes == 2        \* flush() invocations
MaxWraps == 3          \* wrappers stacked on one method of a provider class
MaxEvents == 3         \* events one MessageStream emits

\* ------------------------------------------------------- optional values
\* A TypeScript optional (T | undefined) is a sequence of length <= 1.
None == <<>>
Some(v) == <<v>>
Nullish(a, b) == IF a # None THEN a ELSE b                 \* a ?? b

NoInstance == 0        \* AgentBasis.instance === null
NoPromise == 0         \* AgentBasis.shutdownPromise === null
NoConfig == [none |-> TRUE]

Instances == 1..MaxInstances
Callers == 1..MaxCalls
Events == {"beforeExit", "SIGINT", "SIGTERM"}

\* ------------------------------------------------------------ utils/env
ENV_VARS == [API_KEY |-> "AGENTBASIS_API_KEY", AGENT_ID |-> "AGENTBASIS_AGENT_ID",
             DEBUG |-> "AGENTBASIS_DEBUG", INCLUDE_CONTENT |-> "AGENTBASIS_INCLUDE_CONTENT"]

\* getEnvVarBool(name, defaultValue): undefined -> default, else 'true' or '1'
getEnvVarBool(value, defaultValue) ==
  IF value = None THEN defaultValue ELSE (value = Some("true") \/ value = Some("1"))

\* getAgentBasisEnvVars(): debug and includeContent are always booleans
getAgentBasisEnvVars(e) ==
  [apiKey |-> e.API_KEY, agentId |-> e.AGENT_ID,
   debug |-> Some(getEnvVarBool(e.DEBUG, FALSE)),
   includeContent |-> Some(getEnvVarBool(e.INCLUDE_CONTENT, FALSE))]

\* ---------------------------------------------------------- core/config
DEFAULT_CONFIG ==
  [includeContent |-> FALSE, includeBinaryContent |-> FALSE, batchSize |-> 100,
   flushIntervalMs |-> 5000, maxRetries |-> 3, debug |-> FALSE]

Failure(msg) == [ok |-> FALSE, error |-> msg, config |-> NoConfig]
Success(c) == [ok |-> TRUE, error |-> "", config |-> c]

\* validateConfig without the checks of the numeric bounds
validateConfig_WithoutBounds(c) ==
  IF c.apiKey = "" THEN Failure("Invalid API key")
  ELSE IF c.agentId = "" THEN Failure("Invalid Agent ID")
  ELSE Success(c)

\* validateConfig with the numeric bounds checked in the reverse order
validateConfig_RetriesFirst(c) ==
  IF c.apiKey = "" THEN Failure("Invalid API key")
  ELSE IF c.agentId = "" THEN Failure("Invalid Agent ID")
  ELSE IF c.maxRetries < 0 THEN Failure("maxRetries")
  ELSE IF c.flushIntervalMs < 100 THEN Failure("flushIntervalMs")
  ELSE IF c.batchSize < 1 THEN Failure("batchSize")
  ELSE Success(c)

\* validateConfig(config): the first violated constraint throws
validateConfig(c) ==
  IF c.apiKey = "" THEN Failure("Invalid API key")
  ELSE IF c.agentId = "" THEN Failure("Invalid Agent ID")
  ELSE IF c.batchSize < 1 THEN Failure("batchSize")
  ELSE IF c.flushIntervalMs < 100 THEN Failure("flushIntervalMs")
  ELSE IF c.maxRetries < 0 THEN Failure("maxRetries")
  ELSE Success(c)

\* !value for an optional string: undefined or the empty string
Falsy(s) == s = None \/ s = Some("")

\* loadConfig with the environment taking precedence over the explicit
\* value for the two flags
loadConfig_EnvOverExplicit(initConfig, e) ==
  LET envVars == getAgentBasisEnvVars(e)
      apiKey == Nullish(initConfig.apiKey, envVars.apiKey)
      agentId == Nullish(initConfig.agentId, envVars.agentId)
  IN IF Falsy(apiKey) THEN Failure(ENV_VARS.API_KEY)
     ELSE IF Falsy(agentId) THEN Failure(ENV_VARS.AGENT_ID)
     ELSE validateConfig(
       [apiKey |-> apiKey[1],
        agentId |-> agentId[1],
        includeContent |->
          Nullish(Nullish(envVars.includeContent, initConfig.includeContent),
                  Some(DEFAULT_CONFIG.includeContent))[1],
        includeBinaryContent |->
          Nullish(initConfig.includeBinaryContent, Some(DEFAULT_CONFIG.includeBinaryContent))[1],
        batchSize |-> Nullish(initConfig.batchSize, Some(DEFAULT_CONFIG.batchSize))[1],
        flushIntervalMs |->
          Nullish(initConfig.flushIntervalMs, Some(DEFAULT_CONFIG.flushIntervalMs))[1],
        maxRetries |-> Nullish(initConfig.maxRetries, Some(DEFAULT_CONFIG.maxRetries))[1],
        debug |-> Nullish(Nullish(envVars.debug, initConfig.debug),
                          Some(DEFAULT_CONFIG.debug))[1]])

\* loadConfig(initConfig): defaults < env vars < explicit config
loadConfig(initConfig, e) ==
  LET envVars == getAgentBasisEnvVars(e)
      apiKey == Nullish(initConfig.apiKey, envVars.apiKey)
      agentId == Nullish(initConfig.agentId, envVars.agentId)
  IN IF Falsy(apiKey) THEN Failure(ENV_VARS.API_KEY)
     ELSE IF Falsy(agentId) THEN Failure(ENV_VARS.AGENT_ID)
     ELSE validateConfig(
       [apiKey |-> apiKey[1],
        agentId |-> agentId[1],
        includeContent |->
          Nullish(Nullish(initConfig.includeContent, envVars.includeContent),
                  Some(DEFAULT_CONFIG.includeContent))[1],
        includeBinaryContent |->
          Nullish(initConfig.includeBinaryContent, Some(DEFAULT_CONFIG.includeBinaryContent))[1],
        batchSize |-> Nullish(initConfig.batchSize, Some(DEFAULT_CONFIG.batchSize))[1],
        flushIntervalMs |->
          Nullish(initConfig.flushIntervalMs, Some(DEFAULT_CONFIG.flushIntervalMs))[1],
        maxRetries |-> Nullish(initConfig.maxRetries, Some(DEFAULT_CONFIG.maxRetries))[1],
        debug |-> Nullish(Nullish(initConfig.debug, envVars.debug),
                          Some(DEFAULT_CONFIG.debug))[1]])

\* ------------------------------------------------ inputs of the lifecycle
NoArgs ==
  [apiKey |-> None, agentId |-> None, includeContent |-> None,
   includeBinaryContent |-> None, batchSize |-> None, flushIntervalMs |-> None,
   maxRetries |-> None, debug |-> None]

\* The init() arguments the lifecycle is exercised with: two valid ones that
\* differ in every resolved field a caller can observe, one that violates a
\* bound, and none at all (valid only through the environment).
InitArgs ==
  { [NoArgs EXCEPT !.apiKey = Some("test-key"), !.agentId = Some("test-agent"),
                   !.debug = Some(FALSE)],
    [NoArgs EXCEPT !.apiKey = Some("ignored-key"), !.agentId = Some("ignored-agent"),
                   !.debug = Some(TRUE), !.includeContent = Some(TRUE)],
    [NoArgs EXCEPT !.apiKey = Some("test-key"), !.agentId = Some("test-agent"),
                   !.batchSize = Some(0)],
    [NoArgs EXCEPT !.apiKey = Some("test-key"), !.agentId = Some("test-agent"),
                   !.flushIntervalMs = Some(99)],
    [NoArgs EXCEPT !.apiKey = Some("test-key"), !.agentId = Some("test-agent"),
                   !.maxRetries = Some(-1)],
    NoArgs }

EmptyEnv == [API_KEY |-> None, AGENT_ID |-> None, DEBUG |-> None, INCLUDE_CONTENT |-> None]
Envs ==
  { EmptyEnv,
    [EmptyEnv EXCEPT !.API_KEY = Some("env-key"), !.AGENT_ID = Some("env-agent"),
                     !.DEBUG = Some("true")] }

\* The arguments and environments configuration resolution is exercised
\* with: every field absent, valid, or (where a constraint exists) invalid.
ConfigArgs ==
  [apiKey : {None, Some(""), Some("explicit-key")},
   agentId : {None, Some("explicit-agent")},
   includeContent : {None, Some(TRUE), Some(FALSE)},
   includeBinaryContent : {None, Some(TRUE)},
   batchSize : {None, Some(0), Some(25)},
   flushIntervalMs : {None, Some(99), Some(1500)},
   maxRetries : {None, Some(-1), Some(5)},
   debug : {None, Some(TRUE), Some(FALSE)}]

ConfigEnvs ==
  [API_KEY : {None, Some("env-key")},
   AGENT_ID : {None, Some("env-agent")},
   DEBUG : {None, Some("true"), Some("false")},
   INCLUDE_CONTENT : {None, Some("1"), Some("0")}]

\* ------------------------------------------------------------------ state
VARIABLES
  env,                 \* process.env, fixed for a run
  instance,            \* AgentBasis.instance: NoInstance or an instance id
  created,             \* number of AgentBasis objects constructed so far
  instConfig,          \* instance id -> its config field
  instArgs,            \* instance id -> the init() arguments that created it
  transport,           \* instance id -> its Transport: state and shutdown() calls
  shutdownPromise,     \* AgentBasis.shutdownPromise: NoPromise or a teardown id
  teardown,            \* teardown id -> progress of that teardown's async body
  callers,             \* shutdown() invocation -> its position and observations
  handlersRegistered,  \* AgentBasis.handlersRegistered
  listeners,           \* process event -> number of SDK listeners registered
  runtimeDebugMode,    \* logger's runtimeDebugMode override (None: unset)
  initCalls,           \* number of init() invocations so far
  lastInit,            \* outcome of the latest init() invocation, and the
                       \* teardown memoized while it ran (during)
  flushOp              \* the latest flush() invocation: position and outcome

VARIABLES
  spans,               \* span id -> the span object (attributes, status, end guard)
  spanCount,           \* number of spans started so far
  lastEnd              \* the latest Transport.endLLMSpan invocation and its outcome

spanVars == <<spans, spanCount, lastEnd>>

VARIABLES op, isInstrumented, prototypes, originalMethods, handler, wrappedModel

\* what instrument(), new AgentBasisCallbackHandler() and wrapLanguageModel() set up
\* what instrument() of a provider module leaves behind: its flag, the
\* methods on the provider SDK's classes, the originals it saved
patched == <<isInstrumented, prototypes, originalMethods>>

hooks == <<patched, handler, wrappedModel>>

instrVars == <<op, hooks>>

lifecycleVars ==
  <<env, instance, created, instConfig, instArgs, transport, shutdownPromise,
    teardown, callers, handlersRegistered, listeners, runtimeDebugMode,
    initCalls, lastInit, flushOp>>

VARIABLES contextManager, active, scopes, closed

contextVars == <<contextManager, active, scopes, closed>>

vars == <<lifecycleVars, spanVars, instrVars, contextVars>>

NoTransport == [state |-> "none", shutdownCalls |-> 0, failed |-> FALSE]
IdleCaller == [pc |-> "idle", t |-> NoPromise, inst |-> NoInstance, seen |-> NoInstance]
NoInit ==
  [ret |-> NoInstance, threw |-> FALSE, error |-> "", args |-> NoArgs,
   during |-> NoPromise]
NoFlush ==
  [pc |-> "idle", inst |-> NoInstance, provider |-> None, ret |-> None,
   threw |-> FALSE, calls |-> 0]

\* the static fields of the class before any call
NotInitialized ==
  /\ instance = NoInstance
  /\ created = 0
  /\ instConfig = [i \in Instances |-> NoConfig]
  /\ instArgs = [i \in Instances |-> NoArgs]
  /\ transport = [i \in Instances |-> NoTransport]
  /\ shutdownPromise = NoPromise
  /\ teardown = [t \in Callers |-> "none"]
  /\ callers = [c \in Callers |-> IdleCaller]
  /\ handlersRegistered = FALSE
  /\ listeners = [e \in Events |-> 0]
  /\ runtimeDebugMode = None
  /\ initCalls = 0
  /\ lastInit = NoInit
  /\ flushOp = NoFlush

LifecycleInit == env \in Envs /\ NotInitialized

\* ----------------------------------------------------------- utils/logger
\* isDebugMode(): the AGENTBASIS_DEBUG variable read as a flag
isDebugMode == getEnvVarBool(env.DEBUG, FALSE)

\* debug() that logs whenever the environment asks for it
debugEnabled_EnvFirst ==
  isDebugMode \/ (runtimeDebugMode # None /\ runtimeDebugMode[1])

\* debug(): const debugEnabled = runtimeDebugMode ?? isDebugMode()
debugEnabled == Nullish(runtimeDebugMode, Some(isDebugMode))[1]

\* ------------------------------------------------------------ core/client
isInitialized == instance # NoInstance

getConfig == IF instance # NoInstance THEN instConfig[instance] ELSE NoConfig

\* setupShutdownHandlers(): process.once for the three events, guarded by the flag
setupShutdownHandlers(ls, flag) ==
  IF flag THEN [ls |-> ls, flag |-> flag]
  ELSE [ls |-> [e \in Events |-> ls[e] + 1], flag |-> TRUE]

\* removeShutdownHandlers() that resets the flag and leaves the listeners on
removeShutdownHandlers_FlagOnly(ls, flag) ==
  IF ~flag THEN [ls |-> ls, flag |-> flag]
  ELSE [ls |-> ls, flag |-> FALSE]

\* removeShutdownHandlers(): process.off removes at most one listener per event
removeShutdownHandlers(ls, flag) ==
  IF ~flag THEN [ls |-> ls, flag |-> flag]
  ELSE [ls |-> [e \in Events |-> IF ls[e] > 0 THEN ls[e] - 1 ELSE 0], flag |-> FALSE]

\* init() returns the existing instance, or rethrows what loadConfig threw
initReturns(config, ret, threw, error) ==
  /\ lastInit' = [ret |-> ret, threw |-> threw, error |-> error, args |-> config,
                  during |-> shutdownPromise]
  /\ UNCHANGED <<env, flushOp, instance, created, instConfig, instArgs, transport,
                 shutdownPromise, teardown, callers, handlersRegistered,
                 listeners, runtimeDebugMode>>

\* setRuntimeDebugMode(resolvedConfig.debug); new AgentBasis(resolvedConfig):
\* the constructor builds the Transport and registers the exit handlers
construct(config, resolvedConfig) ==
  LET id == created + 1
      h == setupShutdownHandlers(listeners, handlersRegistered)
  IN /\ created < MaxInstances
     /\ runtimeDebugMode' = Some(resolvedConfig.debug)
     /\ created' = id
     /\ instance' = id
     /\ instConfig' = [instConfig EXCEPT ![id] = resolvedConfig]
     /\ instArgs' = [instArgs EXCEPT ![id] = config]
     /\ transport' = [transport EXCEPT ![id].state = "active"]
     /\ listeners' = h.ls
     /\ handlersRegistered' = h.flag
     /\ lastInit' = [ret |-> id, threw |-> FALSE, error |-> "", args |-> config,
                     during |-> shutdownPromise]
     /\ UNCHANGED <<env, flushOp, shutdownPromise, teardown, callers>>

\* init() without the "already initialized" guard: every call resolves its
\* own arguments and constructs (or throws)
init_WithoutInstanceGuard(config) ==
  /\ initCalls < MaxInits
  /\ initCalls' = initCalls + 1
  /\ LET resolved == loadConfig(config, env) IN
     IF ~resolved.ok
     THEN initReturns(config, NoInstance, TRUE, resolved.error)
     ELSE construct(config, resolved.config)

\* static init(config): first caller wins
init(config) ==
  /\ initCalls < MaxInits
  /\ initCalls' = initCalls + 1
  /\ IF instance # NoInstance
     THEN initReturns(config, instance, FALSE, "")
     ELSE LET resolved == loadConfig(config, env) IN
          IF ~resolved.ok
          THEN initReturns(config, NoInstance, TRUE, resolved.error)
          ELSE construct(config, resolved.config)

\* shutdown() whose teardown clears the singleton and the debug override
\* before it awaits the transport
shutdownFrom_ClearsFirst(c, ls) ==
  /\ callers[c].pc = "idle"
  /\ \A d \in Callers : d < c => callers[d].pc # "idle"
  /\ IF shutdownPromise # NoPromise
     THEN /\ callers' = [callers EXCEPT ![c] =
               [pc |-> "joined", t |-> shutdownPromise, inst |-> instance, seen |-> NoInstance]]
          /\ listeners' = ls
          /\ UNCHANGED <<instance, transport, shutdownPromise, teardown,
                         handlersRegistered, runtimeDebugMode>>
     ELSE IF instance = NoInstance
     THEN /\ callers' = [callers EXCEPT ![c] =
               [pc |-> "done", t |-> NoPromise, inst |-> NoInstance, seen |-> instance]]
          /\ listeners' = ls
          /\ UNCHANGED <<instance, transport, shutdownPromise, teardown,
                         handlersRegistered, runtimeDebugMode>>
     ELSE LET h == removeShutdownHandlers(ls, handlersRegistered) IN
          /\ listeners' = h.ls
          /\ handlersRegistered' = h.flag
          /\ instance' = NoInstance
          /\ runtimeDebugMode' = None
          /\ transport' = [transport EXCEPT
               ![instance].shutdownCalls = @ + 1, ![instance].state = "draining"]
          /\ teardown' = [teardown EXCEPT ![c] = "draining"]
          /\ shutdownPromise' = c
          /\ callers' = [callers EXCEPT ![c] =
               [pc |-> "owner", t |-> c, inst |-> instance, seen |-> NoInstance]]
  /\ UNCHANGED <<env, flushOp, created, instConfig, instArgs, initCalls, lastInit>>

\* static async shutdown(), up to its first suspension, for invocation c with
\* the process listeners being ls when it is entered.
shutdownFrom(c, ls) ==
  /\ callers[c].pc = "idle"
  /\ \A d \in Callers : d < c => callers[d].pc # "idle"
  /\ IF shutdownPromise # NoPromise
     THEN \* return AgentBasis.shutdownPromise
          /\ callers' = [callers EXCEPT ![c] =
               [pc |-> "joined", t |-> shutdownPromise, inst |-> instance, seen |-> NoInstance]]
          /\ listeners' = ls
          /\ UNCHANGED <<instance, transport, shutdownPromise, teardown,
                         handlersRegistered, runtimeDebugMode>>
     ELSE IF instance = NoInstance
     THEN \* nothing to shut down
          /\ callers' = [callers EXCEPT ![c] =
               [pc |-> "done", t |-> NoPromise, inst |-> NoInstance, seen |-> instance]]
          /\ listeners' = ls
          /\ UNCHANGED <<instance, transport, shutdownPromise, teardown,
                         handlersRegistered, runtimeDebugMode>>
     ELSE \* the teardown's async body runs up to "await transport.shutdown()"
          LET h == removeShutdownHandlers(ls, handlersRegistered) IN
          /\ listeners' = h.ls
          /\ handlersRegistered' = h.flag
          /\ transport' = [transport EXCEPT
               ![instance].shutdownCalls = @ + 1, ![instance].state = "draining"]
          /\ teardown' = [teardown EXCEPT ![c] = "draining"]
          /\ shutdownPromise' = c
          /\ callers' = [callers EXCEPT ![c] =
               [pc |-> "owner", t |-> c, inst |-> instance, seen |-> NoInstance]]
          /\ UNCHANGED <<instance, runtimeDebugMode>>
  /\ UNCHANGED <<env, flushOp, created, instConfig, instArgs, initCalls, lastInit>>

\* A continuation of shutdown() is queued as a microtask: the event loop
\* delivers no process event before the microtask queue has drained.
MicrotaskPending ==
  \E c \in Callers :
    \/ callers[c].pc = "owner" /\ teardown[c] \in {"settled", "resolved"}
    \/ callers[c].pc = "joined" /\ teardown[callers[c].t] = "resolved"

\* a shutdown() call made by the application
shutdown(c) == shutdownFrom(c, listeners)

\* handleBeforeExit / handleSigInt / handleSigTerm: registered with
\* process.once, so the listener is removed before it runs shutdown()
handleSignal(e, c) ==
  /\ ~MicrotaskPending
  /\ listeners[e] > 0
  /\ shutdownFrom(c, [listeners EXCEPT ![e] = @ - 1])

\* Transport.shutdown() resumes after provider.shutdown() settled; a
\* rejection is caught and logged, so its own promise always fulfils
transportShutdownSettled(t, ok) ==
  /\ teardown[t] = "draining"
  /\ teardown' = [teardown EXCEPT ![t] = "settled"]
  /\ transport' = [transport EXCEPT
       ![callers[t].inst].state = "down", ![callers[t].inst].failed = ~ok]
  /\ UNCHANGED <<env, flushOp, instance, created, instConfig, instArgs, shutdownPromise,
                 callers, handlersRegistered, listeners, runtimeDebugMode,
                 initCalls, lastInit>>

\* the teardown's async body resumes after the await and completes
teardownResume(t) ==
  /\ teardown[t] = "settled"
  /\ instance' = NoInstance
  /\ runtimeDebugMode' = None
  /\ teardown' = [teardown EXCEPT ![t] = "resolved"]
  /\ UNCHANGED <<env, flushOp, created, instConfig, instArgs, transport, shutdownPromise,
                 callers, handlersRegistered, listeners, initCalls, lastInit>>

\* the invocation that started the teardown resumes from
\* "await AgentBasis.shutdownPromise" and runs its finally block
shutdownOwnerResume(c) ==
  /\ callers[c].pc = "owner"
  /\ teardown[c] = "resolved"
  /\ shutdownPromise' = NoPromise
  /\ callers' = [callers EXCEPT ![c].pc = "done", ![c].seen = instance]
  /\ UNCHANGED <<env, flushOp, instance, created, instConfig, instArgs, transport, teardown,
                 handlersRegistered, listeners, runtimeDebugMode, initCalls, lastInit>>

\* the promise of an invocation that returned the memoized teardown settles
shutdownJoinedResume(c) ==
  /\ callers[c].pc = "joined"
  /\ teardown[callers[c].t] = "resolved"
  /\ callers' = [callers EXCEPT ![c].pc = "done", ![c].seen = instance]
  /\ UNCHANGED <<env, flushOp, instance, created, instConfig, instArgs, transport,
                 shutdownPromise, teardown, handlersRegistered, listeners,
                 runtimeDebugMode, initCalls, lastInit>>

\* static async flush(): false at once when there is no instance, otherwise
\* Transport.flush() of the current instance up to "await provider.forceFlush()"
flush ==
  /\ flushOp.pc # "awaiting"
  /\ flushOp.calls < MaxFlushes
  /\ flushOp' =
       IF instance = NoInstance
       THEN [NoFlush EXCEPT !.pc = "done", !.ret = Some(FALSE), !.calls = flushOp.calls + 1]
       ELSE [NoFlush EXCEPT !.pc = "awaiting", !.inst = instance,
                            !.calls = flushOp.calls + 1]
  /\ UNCHANGED <<env, instance, created, instConfig, instArgs, transport,
                 shutdownPromise, teardown, callers, handlersRegistered, listeners,
                 runtimeDebugMode, initCalls, lastInit>>

\* Transport.flush() with the try/catch around the await left out
forceFlushSettles_WithoutCatch(ok) ==
  /\ flushOp.pc = "awaiting"
  /\ flushOp' = [flushOp EXCEPT !.pc = "done", !.provider = Some(ok),
                                !.ret = IF ok THEN Some(TRUE) ELSE None,
                                !.threw = ~ok]
  /\ UNCHANGED <<env, instance, created, instConfig, instArgs, transport,
                 shutdownPromise, teardown, callers, handlersRegistered, listeners,
                 runtimeDebugMode, initCalls, lastInit>>

\* provider.forceFlush() settles: Transport.flush() returns true, or catches
\* the rejection, logs it and returns false
forceFlushSettles(ok) ==
  /\ flushOp.pc = "awaiting"
  /\ flushOp' = [flushOp EXCEPT !.pc = "done", !.provider = Some(ok),
                                !.ret = Some(ok), !.threw = FALSE]
  /\ UNCHANGED <<env, instance, created, instConfig, instArgs, transport,
                 shutdownPromise, teardown, callers, handlersRegistered, listeners,
                 runtimeDebugMode, initCalls, lastInit>>

LifecycleNext ==
  \/ \E config \in InitArgs : init(config)
  \/ \E c \in Callers : shutdown(c)
  \/ \E e \in Events, c \in Callers : handleSignal(e, c)
  \/ \E t \in Callers, ok \in BOOLEAN : transportShutdownSettled(t, ok)
  \/ \E t \in Callers : teardownResume(t)
  \/ \E c \in Callers : shutdownOwnerResume(c)
  \/ \E c \in Callers : shutdownJoinedResume(c)

\* --------------------------------------------------------- core/transport
SpanIds == 1..MaxSpans

\* Values handed to the span controller as prompt / response payloads.
\* JSON.stringify throws a TypeError on a cyclic structure or a BigInt.
Payloads ==
  { [id |-> "messages", serializable |-> TRUE],
    [id |-> "result", serializable |-> TRUE],
    [id |-> "cyclic", serializable |-> FALSE] }

\* A prompt that carries binary content (an image part as base64 data)
ImagePayload == [id |-> "messages-with-image", serializable |-> TRUE]

\* the JSON text holds the binary content of the value it was made from
ContainsBinary(text) == text.json = ImagePayload.id

\* JSON.stringify(value): the JSON text of the value, or a throw
JSONstringify(value) == [ok |-> value.serializable, text |-> [json |-> value.id]]

\* Values a provider call or a stream can throw: an Error instance, or any
\* other value (here a string).
Thrown ==
  { [kind |-> "Error", id |-> "e1", message |-> "provider failed"],
    [kind |-> "string", id |-> "s1", message |-> "boom"] }

\* err instanceof Error ? err : new Error(String(err))
toError(err) ==
  IF err.kind = "Error" THEN err
  ELSE [kind |-> "Error", id |-> "wrapped", message |-> err.message]

NoAttributes ==
  [provider |-> None, model |-> None, agentId |-> None, inputTokens |-> None,
   outputTokens |-> None, totalTokens |-> None, prompt |-> None, response |-> None,
   streamed |-> None, runId |-> None]

\* a span id not yet handed out
NoSpan ==
  [started |-> FALSE, ended |-> FALSE, status |-> "UNSET", statusMessage |-> None,
   attrs |-> NoAttributes, exception |-> None, exported |-> 0, endCalls |-> 0,
   parent |-> None]

NoOptions ==
  [inputTokens |-> None, outputTokens |-> None, totalTokens |-> None, prompt |-> None,
   response |-> None, streamed |-> None, error |-> None]

\* The Span of the tracer SDK: once ended, setAttribute, setStatus and
\* recordException change nothing, and a second end() hands nothing on.
setAttribute(sp, key, value) ==
  IF sp.ended THEN sp ELSE [sp EXCEPT !.attrs[key] = Some(value)]

setStatus(sp, code, message) ==
  IF sp.ended THEN sp ELSE [sp EXCEPT !.status = code, !.statusMessage = message]

recordException(sp, err) ==
  IF sp.ended THEN sp ELSE [sp EXCEPT !.exception = Some(err)]

end(sp) ==
  IF sp.ended THEN sp ELSE [sp EXCEPT !.ended = TRUE, !.exported = @ + 1]

\* options.error.message: undefined when the value is not an Error
messageOf(err) == IF err.kind = "Error" THEN Some(err.message) ELSE None

\* if (options.x !== undefined) span.setAttribute(X, options.x)
setIfDefined(sp, key, option) ==
  IF option # None THEN setAttribute(sp, key, option[1]) ELSE sp

\* Transport.startLLMSpan(name, provider, model): the new span object
startLLMSpan(provider, model, cfg) ==
  [NoSpan EXCEPT !.started = TRUE,
                 !.attrs = [NoAttributes EXCEPT !.provider = Some(provider),
                                                !.model = Some(model),
                                                !.agentId = Some(cfg.agentId)]]

\* endLLMSpan with the includeContent test of the configuration left out
endLLMSpan_IgnoringIncludeContent(sp, options, cfg) ==
  LET counted == [sp EXCEPT !.endCalls = @ + 1]
      tokens ==
        setIfDefined(
          setIfDefined(
            setIfDefined(
              setIfDefined(counted, "inputTokens", options.inputTokens),
              "outputTokens", options.outputTokens),
            "totalTokens", options.totalTokens),
          "streamed", options.streamed)
      withPrompt == options.prompt # None
      withResponse == options.response # None
      prompted ==
        IF withPrompt
        THEN setAttribute(tokens, "prompt", JSONstringify(options.prompt[1]).text)
        ELSE tokens
      responded ==
        IF withResponse
        THEN setAttribute(prompted, "response", JSONstringify(options.response[1]).text)
        ELSE prompted
      statused ==
        IF options.error # None
        THEN recordException(
               setStatus(responded, "ERROR", messageOf(options.error[1])),
               options.error[1])
        ELSE setStatus(responded, "OK", None)
  IN IF withPrompt /\ ~JSONstringify(options.prompt[1]).ok
     THEN [span |-> tokens, threw |-> TRUE]
     ELSE IF withResponse /\ ~JSONstringify(options.response[1]).ok
     THEN [span |-> prompted, threw |-> TRUE]
     ELSE [span |-> end(statused), threw |-> FALSE]

\* Transport.endLLMSpan(span, options) of a transport configured with cfg:
\* the span as the call leaves it, and whether the call threw
endLLMSpan(sp, options, cfg) ==
  LET counted == [sp EXCEPT !.endCalls = @ + 1]
      tokens ==
        setIfDefined(
          setIfDefined(
            setIfDefined(
              setIfDefined(counted, "inputTokens", options.inputTokens),
              "outputTokens", options.outputTokens),
            "totalTokens", options.totalTokens),
          "streamed", options.streamed)
      withPrompt == cfg.includeContent /\ options.prompt # None
      withResponse == cfg.includeContent /\ options.response # None
      prompted ==
        IF withPrompt
        THEN setAttribute(tokens, "prompt", JSONstringify(options.prompt[1]).text)
        ELSE tokens
      responded ==
        IF withResponse
        THEN setAttribute(prompted, "response", JSONstringify(options.response[1]).text)
        ELSE prompted
      statused ==
        IF options.error # None
        THEN recordException(
               setStatus(responded, "ERROR", messageOf(options.error[1])),
               options.error[1])
        ELSE setStatus(responded, "OK", None)
  IN IF withPrompt /\ ~JSONstringify(options.prompt[1]).ok
     THEN [span |-> tokens, threw |-> TRUE]
     ELSE IF withResponse /\ ~JSONstringify(options.response[1]).ok
     THEN [span |-> prompted, threw |-> TRUE]
     ELSE [span |-> end(statused), threw |-> FALSE]

NoEnd == [span |-> 0, threw |-> FALSE, options |-> NoOptions]

SpanInit ==
  /\ spans = [s \in SpanIds |-> NoSpan]
  /\ spanCount = 0
  /\ lastEnd = NoEnd

\* The options the span controller is called with directly: a successful
\* call with usage and content, a failed call, usage in part only, a
\* response that cannot be serialized, and a prompt with binary content.
EndOptions ==
  { [NoOptions EXCEPT !.inputTokens = Some(3), !.outputTokens = Some(1),
                      !.totalTokens = Some(4),
                      !.prompt = Some([id |-> "messages", serializable |-> TRUE]),
                      !.response = Some([id |-> "result", serializable |-> TRUE]),
                      !.streamed = Some(FALSE)],
    [NoOptions EXCEPT !.error = Some([kind |-> "Error", id |-> "e1",
                                      message |-> "provider failed"]),
                      !.prompt = Some([id |-> "messages", serializable |-> TRUE]),
                      !.streamed = Some(TRUE)],
    [NoOptions EXCEPT !.outputTokens = Some(2), !.streamed = Some(TRUE)],
    [NoOptions EXCEPT !.prompt = Some([id |-> "messages", serializable |-> TRUE]),
                      !.response = Some([id |-> "cyclic", serializable |-> FALSE]),
                      !.streamed = Some(FALSE)],
    [NoOptions EXCEPT !.prompt = Some(ImagePayload), !.streamed = Some(FALSE)] }

\* a caller starts an LLM span on the transport of the current instance
callStartLLMSpan(provider, model) ==
  /\ instance # NoInstance
  /\ spanCount < MaxSpans
  /\ spanCount' = spanCount + 1
  /\ spans' = [spans EXCEPT ![spanCount + 1] =
                 startLLMSpan(provider, model, instConfig[instance])]
  /\ UNCHANGED <<lastEnd, contextVars, lifecycleVars, instrVars>>

\* callEndLLMSpan on a transport that keeps one "current span" and applies
\* every end to the span started last
callEndLLMSpan_CurrentSpan(s, options) ==
  /\ instance # NoInstance
  /\ spans[s].started
  /\ spans[spanCount].endCalls < MaxEndCalls
  /\ LET r == endLLMSpan(spans[spanCount], options, instConfig[instance]) IN
     /\ spans' = [spans EXCEPT ![spanCount] = r.span]
     /\ lastEnd' = [span |-> s, threw |-> r.threw, options |-> options]
  /\ UNCHANGED <<spanCount, contextVars, lifecycleVars, instrVars>>

\* a caller ends span s through the transport of the current instance
callEndLLMSpan(s, options) ==
  /\ instance # NoInstance
  /\ spans[s].started
  /\ spans[s].endCalls < MaxEndCalls
  /\ LET r == endLLMSpan(spans[s], options, instConfig[instance]) IN
     /\ spans' = [spans EXCEPT ![s] = r.span]
     /\ lastEnd' = [span |-> s, threw |-> r.threw, options |-> options]
  /\ UNCHANGED <<spanCount, contextVars, lifecycleVars, instrVars>>

\* ---------------------------------------------------- instrumentation
Providers == {"openai", "anthropic", "gemini"}

\* the providers whose streaming result is one async iterable
PullProviders == {"openai", "anthropic"}

\* params.model of the calls made
ModelOf(provider) ==
  IF provider = "openai" THEN "gpt-4"
  ELSE IF provider = "anthropic" THEN "claude-3" ELSE "gemini-pro"

NoValue == [kind |-> "undefined", id |-> "", message |-> ""]

\* thrown by AgentBasis.getInstance() when there is no instance
NotInitializedError ==
  [kind |-> "Error", id |-> "not-initialized",
   message |-> "AgentBasis not initialized. Call AgentBasis.init() first."]

\* thrown by JSON.stringify
JSONTypeError ==
  [kind |-> "Error", id |-> "TypeError",
   message |-> "Converting circular structure to JSON"]

\* the async generator wrapStreamingResponse returns
WrappedStream == [kind |-> "generator", id |-> "wrapStreamingResponse", message |-> ""]

\* params.messages, which the provider client has already serialized
MessagesPayload == [id |-> "messages", serializable |-> TRUE]

\* { content: totalContent, finish_reason | stop_reason }
StreamedContent == [id |-> "content", serializable |-> TRUE]

\* A usage object as the wrappers read it: input is prompt_tokens (OpenAI)
\* or input_tokens (Anthropic), output is completion_tokens or
\* output_tokens, total is total_tokens; each may be absent.
NoUsage == [input |-> None, output |-> None, total |-> None]

\* OpenAI stream chunks: chunk.usage absent, complete, or carrying one field
OpenAIChunks ==
  { [type |-> "chunk", usage |-> None],
    [type |-> "chunk",
     usage |-> Some([input |-> Some(3), output |-> Some(1), total |-> Some(4)])],
    [type |-> "chunk", usage |-> Some([NoUsage EXCEPT !.output = Some(2)])] }

\* Anthropic stream events: message_start carries message.usage.input_tokens,
\* message_delta carries usage.output_tokens
AnthropicEvents ==
  { [type |-> "message_start", usage |-> Some([NoUsage EXCEPT !.input = Some(3)])],
    [type |-> "content_block_delta", usage |-> None],
    [type |-> "message_delta", usage |-> Some([NoUsage EXCEPT !.output = Some(2)])],
    [type |-> "message_delta", usage |-> Some([NoUsage EXCEPT !.output = Some(0)])] }

ChunksOf(provider) == IF provider = "openai" THEN OpenAIChunks ELSE AnthropicEvents

\* One call through a patched method: where the call is (pc), the transport
\* and span it captured, the locals of the stream wrapper (usage,
\* inputTokens, outputTokens), the chunks the consumer has received, how the
\* awaited call settled (outcome, value), the chunks the source stream has
\* produced (chunks) and those the wrapper has yielded to the consumer
\* (delivered), how the wrapped stream ended
\* (source, raised), how the consumer's iteration ended (iteration, thrown),
\* the ended flag of a push-style or text-stream wrapper (ended), the run id
\* a callback was called with (runId), the call tree a span was started
\* from (tree),
\* the state of the deferred response or usage promise (promise), whether
\* the wrapped operation of the user was invoked (ran) and what it resolved
\* with (result).
NoOp ==
  [kind |-> "none", streaming |-> FALSE, pc |-> "idle", transport |-> NoInstance,
   span |-> 0, chunks |-> <<>>, delivered |-> <<>>, usage |-> None, inputTokens |-> 0,
   outputTokens |-> 0, pulls |-> 0, source |-> "open", raised |-> NoValue,
   promise |-> "none", ran |-> FALSE, result |-> NoValue, ended |-> FALSE,
   runId |-> "", tree |-> 0,
   outcome |-> "none", value |-> NoValue, iteration |-> "none", thrown |-> NoValue]

\* the run ids LangChain hands to the callbacks
RunIds == {"run-1", "run-2"}

\* the callback handler: its enabled field and its spans Map (0: no entry)
NoHandler ==
  [constructed |-> FALSE, enabled |-> FALSE, spans |-> [r \in RunIds |-> 0]]

\* the methods instrument() replaces, under the keys of originalMethods
SitesOf(provider) ==
  IF provider = "openai"
  THEN {"ChatCompletions.create", "Completions.create", "Embeddings.create"}
  ELSE IF provider = "anthropic"
  THEN {"Messages.create", "Messages.stream"}
  ELSE {"generateContent", "generateContentStream", "startChat", "embedContent"}

Sites == UNION {SitesOf(provider) : provider \in Providers}

\* The classes of the provider SDKs as first loaded. method[site] is the
\* function on the prototype where instrument() patches: 0 the SDK's own
\* method, n > 0 a wrapper around the function n - 1. protoChat: whether
\* OpenAI.prototype.chat?.completions is an object (chat is an instance
\* field in the current SDK); own: the create property set on that object.
Unpatched(protoChat) ==
  [method |-> [site \in Sites |-> 0], protoChat |-> protoChat, own |-> None]

NoOriginals == [site \in Sites |-> None]

InstrInit ==
  /\ op = NoOp
  /\ isInstrumented = [p \in Providers |-> FALSE]
  /\ prototypes = Unpatched(FALSE)
  /\ originalMethods = NoOriginals
  /\ handler = NoHandler
  /\ wrappedModel = FALSE

\* patchChatCompletions, patchCompletions, patchEmbeddings / patchMessages /
\* patchGenerativeModel: each method is saved under its key and replaced by
\* a wrapper around it
patch(provider, protos) ==
  [protos EXCEPT !.method =
     [site \in Sites |-> IF site \in SitesOf(provider) THEN @[site] + 1 ELSE @[site]]]

\* a call on a client of the provider's SDK goes through a wrapper
installed(provider) == \E site \in SitesOf(provider) : prototypes.method[site] > 0

\* instrument() of a provider module
instrument(provider) ==
  /\ \A site \in SitesOf(provider) : prototypes.method[site] < MaxWraps
  /\ IF isInstrumented[provider] \/ ~isInitialized
     THEN UNCHANGED patched
     ELSE /\ originalMethods' =
               [site \in Sites |-> IF site \in SitesOf(provider)
                                   THEN Some(prototypes.method[site])
                                   ELSE originalMethods[site]]
          /\ prototypes' = patch(provider, prototypes)
          /\ isInstrumented' = [isInstrumented EXCEPT ![provider] = TRUE]
  /\ UNCHANGED <<contextVars, lifecycleVars, spanVars, op, handler, wrappedModel>>

\* where the loop of uninstrument() writes the entry saved under key: on
\* the prototype the method was taken from, on the object
\* OpenAI.prototype.chat.completions, or nowhere
restoreTarget(provider, key, protos) ==
  IF provider = "openai"
  THEN IF key = "ChatCompletions.create" /\ protos.protoChat
       THEN "instance" ELSE "none"
  ELSE "prototype"

\* the loop over originalMethods.entries() in uninstrument()
restore(provider, protos, originals) ==
  [protos EXCEPT
     !.method = [site \in Sites |->
                   IF /\ site \in SitesOf(provider)
                      /\ originals[site] # None
                      /\ restoreTarget(provider, site, protos) = "prototype"
                   THEN originals[site][1] ELSE @[site]],
     !.own = IF \E site \in SitesOf(provider) :
                  /\ originals[site] # None
                  /\ restoreTarget(provider, site, protos) = "instance"
             THEN originals["ChatCompletions.create"] ELSE @]

\* uninstrument() of a provider module
uninstrument(provider) ==
  /\ IF ~isInstrumented[provider]
     THEN UNCHANGED patched
     ELSE /\ prototypes' = restore(provider, prototypes, originalMethods)
          /\ originalMethods' =
               [site \in Sites |-> IF site \in SitesOf(provider)
                                   THEN None ELSE originalMethods[site]]
          /\ isInstrumented' = [isInstrumented EXCEPT ![provider] = FALSE]
  /\ UNCHANGED <<contextVars, lifecycleVars, spanVars, op, handler, wrappedModel>>

\* a || b on numbers: 0 is falsy
OrElse(v, previous) == IF v # None /\ v[1] # 0 THEN v[1] ELSE previous

\* throw of the value converted for the span: err only when it is an Error
rethrown_Converted(err) == toError(err)

\* throw err: the caught value itself
rethrown(err) == err

\* catch (err) { endLLMSpan(span, { error, prompt, streamed }); throw err; }
catchEnd(sp, err, prompt, streamed, cfg) ==
  LET r == endLLMSpan(sp,
             [NoOptions EXCEPT !.error = Some(toError(err)),
                               !.prompt = Some(prompt),
                               !.streamed = Some(streamed)],
             cfg)
  IN [span |-> r.span, threw |-> TRUE,
      value |-> IF r.threw THEN JSONTypeError ELSE rethrown(err)]

\* try { ...; endLLMSpan(span, options); } catch (err) { as catchEnd }
tryEnd(sp, options, prompt, streamed, cfg) ==
  LET r == endLLMSpan(sp, options, cfg)
  IN IF r.threw
     THEN catchEnd(r.span, JSONTypeError, prompt, streamed, cfg)
     ELSE [span |-> r.span, threw |-> FALSE, value |-> NoValue]

\* the body of the for-await loop: the wrapper's locals after a chunk
accumulate(o, chunk) ==
  IF o.kind = "openai"
  THEN [o EXCEPT !.usage = IF chunk.usage # None THEN chunk.usage ELSE @]
  ELSE [o EXCEPT
          !.outputTokens =
            IF chunk.type = "message_delta" THEN OrElse(chunk.usage[1].output, @) ELSE @,
          !.inputTokens =
            IF chunk.type = "message_start" THEN OrElse(chunk.usage[1].input, @) ELSE @]

\* the options of the endLLMSpan call after the loop
completeOptions(o) ==
  IF o.kind = "openai"
  THEN [NoOptions EXCEPT
          !.inputTokens = IF o.usage = None THEN None ELSE o.usage[1].input,
          !.outputTokens = IF o.usage = None THEN None ELSE o.usage[1].output,
          !.totalTokens = IF o.usage = None THEN None ELSE o.usage[1].total,
          !.prompt = Some(MessagesPayload),
          !.response = Some(StreamedContent),
          !.streamed = Some(TRUE)]
  ELSE [NoOptions EXCEPT
          !.inputTokens = Some(o.inputTokens),
          !.outputTokens = Some(o.outputTokens),
          !.totalTokens = Some(o.inputTokens + o.outputTokens),
          !.prompt = Some(MessagesPayload),
          !.response = Some(StreamedContent),
          !.streamed = Some(TRUE)]

\* a new call can start once the previous one has run to its end
Startable == op.pc \in {"idle", "done", "finished"}

\* the patched create(params) up to its first await
patchedCreate(provider, isStreaming) ==
  /\ Startable
  /\ installed(provider)
  /\ IF instance = NoInstance
     THEN /\ op' = [NoOp EXCEPT !.kind = provider, !.streaming = isStreaming,
                                !.pc = "done", !.outcome = "threw",
                                !.value = NotInitializedError]
          /\ UNCHANGED spanVars
     ELSE /\ spanCount < MaxSpans
          /\ spanCount' = spanCount + 1
          /\ spans' = [spans EXCEPT ![spanCount + 1] =
                         startLLMSpan(provider, ModelOf(provider), instConfig[instance])]
          /\ op' = [NoOp EXCEPT !.kind = provider, !.streaming = isStreaming,
                                !.pc = "awaiting", !.transport = instance,
                                !.span = spanCount + 1, !.ran = TRUE]
          /\ UNCHANGED lastEnd
  /\ UNCHANGED <<contextVars, lifecycleVars, hooks>>

\* the original create resolves with a stream: the wrapper is returned
originalCreateResolvesStream ==
  /\ op.pc = "awaiting"
  /\ op.kind \in PullProviders
  /\ op.streaming
  /\ op' = [op EXCEPT !.pc = "generator", !.outcome = "returned", !.value = WrappedStream]
  /\ UNCHANGED <<contextVars, lifecycleVars, spanVars, hooks>>

\* the original create rejects with e
originalCreateRejects(e) ==
  /\ op.pc = "awaiting"
  /\ op.kind \in Providers
  /\ LET r == catchEnd(spans[op.span], e, MessagesPayload, op.streaming,
                       instConfig[op.transport]) IN
     /\ spans' = [spans EXCEPT ![op.span] = r.span]
     /\ op' = [op EXCEPT !.pc = "done", !.outcome = "threw", !.value = r.value]
  /\ UNCHANGED <<contextVars, lifecycleVars, spanCount, lastEnd, hooks>>

\* yield chunk: the value the wrapper hands to the consumer
yielded(chunk) == chunk

\* next(): the wrapped stream yields a chunk, which is passed on
streamYields(chunk) ==
  /\ op.pc = "generator"
  /\ op.kind \in PullProviders
  /\ Len(op.chunks) < MaxChunks
  /\ chunk \in ChunksOf(op.kind)
  /\ op' = [accumulate(op, chunk) EXCEPT !.chunks = Append(@, chunk),
                                         !.delivered = Append(@, yielded(chunk))]
  /\ UNCHANGED <<contextVars, lifecycleVars, spanVars, hooks>>

\* next(): the wrapped stream is exhausted
streamEnds ==
  /\ op.pc = "generator"
  /\ op.kind \in PullProviders
  /\ LET r == tryEnd(spans[op.span], completeOptions(op), MessagesPayload, TRUE,
                     instConfig[op.transport]) IN
     /\ spans' = [spans EXCEPT ![op.span] = r.span]
     /\ op' = [op EXCEPT !.pc = "finished", !.source = "ended",
                         !.iteration = IF r.threw THEN "threw" ELSE "completed",
                         !.thrown = r.value]
  /\ UNCHANGED <<contextVars, lifecycleVars, spanCount, lastEnd, hooks>>

\* the catch block with the endLLMSpan call left out
streamThrows_WithoutFinalize(e) ==
  /\ op.pc = "generator"
  /\ op.kind \in PullProviders
  /\ op' = [op EXCEPT !.pc = "finished", !.source = "threw", !.raised = e,
                      !.iteration = "threw", !.thrown = rethrown(e)]
  /\ UNCHANGED <<contextVars, lifecycleVars, spanVars, hooks>>

\* next(): the wrapped stream throws e
streamThrows(e) ==
  /\ op.pc = "generator"
  /\ op.kind \in PullProviders
  /\ LET r == catchEnd(spans[op.span], e, MessagesPayload, TRUE,
                       instConfig[op.transport]) IN
     /\ spans' = [spans EXCEPT ![op.span] = r.span]
     /\ op' = [op EXCEPT !.pc = "finished", !.source = "threw", !.raised = e,
                         !.iteration = "threw", !.thrown = r.value]
  /\ UNCHANGED <<contextVars, lifecycleVars, spanCount, lastEnd, hooks>>

\* next() on the generator after it has returned or thrown: { done: true }
nextAfterFinished ==
  /\ op.pc = "finished"
  /\ op.pulls < MaxPulls
  /\ op' = [op EXCEPT !.pulls = @ + 1]
  /\ UNCHANGED <<contextVars, lifecycleVars, spanVars, hooks>>

\* --------------------------------------------------- push-style stream
\* the MessageStream object the original stream() returns
MessageStream == [kind |-> "result", id |-> "MessageStream", message |-> ""]

\* how originalStream.call(this, params, options) comes back: with the
\* stream, or with a synchronous throw
OriginalStreamOutcomes ==
  {[threw |-> FALSE, value |-> MessageStream]}
    \cup {[threw |-> TRUE, value |-> e] : e \in Thrown}

\* The events a MessageStream emits: 'message' with the final message (its
\* usage present or not, serializable or not), 'end', and 'error' with an
\* Error.
MessageStreamEvents ==
  { [type |-> "message", serializable |-> TRUE, error |-> None,
     usage |-> Some([NoUsage EXCEPT !.input = Some(3), !.output = Some(1)])],
    [type |-> "message", serializable |-> TRUE, error |-> None, usage |-> None],
    [type |-> "message", serializable |-> FALSE, error |-> None, usage |-> None],
    [type |-> "end", serializable |-> TRUE, error |-> None, usage |-> None],
    [type |-> "error", serializable |-> TRUE, usage |-> None,
     error |-> Some([kind |-> "Error", id |-> "e1", message |-> "provider failed"])] }

\* the 'message' listener before it calls endStreamSpan: the closure's
\* token counters take the usage of the message
messageUsage(o, event) ==
  IF event.type = "message" /\ event.usage # None
  THEN [o EXCEPT !.inputTokens = OrElse(event.usage[1].input, @),
                 !.outputTokens = OrElse(event.usage[1].output, @)]
  ELSE o

\* the options each listener hands to endStreamSpan, o being the closure
\* after messageUsage
listenerOptions(o, event) ==
  IF event.type = "error"
  THEN [NoOptions EXCEPT !.error = event.error,
                         !.prompt = Some(MessagesPayload),
                         !.streamed = Some(TRUE)]
  ELSE [NoOptions EXCEPT
          !.inputTokens = Some(o.inputTokens),
          !.outputTokens = Some(o.outputTokens),
          !.totalTokens = Some(o.inputTokens + o.outputTokens),
          !.prompt = Some(MessagesPayload),
          !.response = IF event.type = "message"
                       THEN Some([id |-> "message", serializable |-> event.serializable])
                       ELSE None,
          !.streamed = Some(TRUE)]

\* the patched messages.stream(params): synchronous, the span started, the
\* original called, and the listeners attached to the stream it returns
patchedStream(outcome) ==
  /\ Startable
  /\ installed("anthropic")
  /\ IF instance = NoInstance
     THEN /\ op' = [NoOp EXCEPT !.kind = "anthropic.stream", !.streaming = TRUE,
                                !.pc = "done", !.outcome = "threw",
                                !.value = NotInitializedError]
          /\ UNCHANGED spanVars
     ELSE /\ spanCount < MaxSpans
          /\ spanCount' = spanCount + 1
          /\ LET sp == startLLMSpan("anthropic", ModelOf("anthropic"), instConfig[instance])
                 r == catchEnd(sp, outcome.value, MessagesPayload, TRUE,
                               instConfig[instance])
             IN IF outcome.threw
                THEN /\ spans' = [spans EXCEPT ![spanCount + 1] = r.span]
                     /\ op' = [NoOp EXCEPT !.kind = "anthropic.stream",
                                           !.streaming = TRUE, !.pc = "done",
                                           !.transport = instance,
                                           !.span = spanCount + 1, !.ran = TRUE,
                                           !.outcome = "threw", !.value = r.value]
                ELSE /\ spans' = [spans EXCEPT ![spanCount + 1] = sp]
                     /\ op' = [NoOp EXCEPT !.kind = "anthropic.stream",
                                           !.streaming = TRUE, !.pc = "listening",
                                           !.transport = instance,
                                           !.span = spanCount + 1, !.ran = TRUE,
                                           !.outcome = "returned",
                                           !.value = outcome.value]
          /\ UNCHANGED lastEnd
  /\ UNCHANGED <<contextVars, lifecycleVars, hooks>>

\* endStreamSpan with the assignment to the flag left out
endStreamSpan_WithoutFlag(o) == [o EXCEPT !.pc = "finalizing"]

\* endStreamSpan(opts) past its guard: the flag is set before the span
\* controller is called
endStreamSpan(o) == [o EXCEPT !.ended = TRUE, !.pc = "finalizing"]

\* The stream emits an event and its listener runs up to the call of
\* transport.endLLMSpan: while an earlier listener is inside that call
\* (pc "finalizing") the event is one emitted from within it.
streamEmits(event) ==
  /\ op.kind = "anthropic.stream"
  /\ op.pc \in {"listening", "finalizing"}
  /\ Len(op.chunks) < MaxEvents
  /\ LET o == [messageUsage(op, event) EXCEPT !.chunks = Append(@, event)] IN
     IF o.ended
     THEN /\ op' = o
          /\ UNCHANGED spanVars
     ELSE IF o.pc = "listening"
     THEN /\ op' = endStreamSpan(o)
          /\ lastEnd' = [span |-> o.span, threw |-> FALSE,
                         options |-> listenerOptions(o, event)]
          /\ UNCHANGED <<spans, spanCount>>
     ELSE \* a listener that passes the guard inside another one's call
          \* runs its own call to the end before the outer one goes on
          LET r == endLLMSpan(spans[o.span], listenerOptions(o, event),
                              instConfig[o.transport]) IN
          /\ op' = endStreamSpan(o)
          /\ spans' = [spans EXCEPT ![o.span] = r.span]
          /\ UNCHANGED <<lastEnd, spanCount>>
  /\ UNCHANGED <<contextVars, lifecycleVars, hooks>>

\* transport.endLLMSpan(span, opts) of endStreamSpan runs and the listener
\* returns, or throws what the call threw
endStreamSpanReturns ==
  /\ op.kind = "anthropic.stream"
  /\ op.pc = "finalizing"
  /\ LET r == endLLMSpan(spans[op.span], lastEnd.options, instConfig[op.transport]) IN
     /\ spans' = [spans EXCEPT ![op.span] = r.span]
     /\ lastEnd' = [lastEnd EXCEPT !.threw = r.threw]
  /\ op' = [op EXCEPT !.pc = "listening"]
  /\ UNCHANGED <<contextVars, lifecycleVars, spanCount, hooks>>

\* ------------------------------------------- deferred usage / response
\* what the Gemini response promise resolves with: usageMetadata present or not
GeminiResponses ==
  { [id |-> "response", serializable |-> TRUE,
     usage |-> Some([input |-> Some(3), output |-> Some(1), total |-> Some(4)])],
    [id |-> "response-without-usage", serializable |-> TRUE, usage |-> None] }

\* what the usage promise of a doStream result resolves with
VercelUsages ==
  { [input |-> Some(3), output |-> Some(1), total |-> Some(4)],
    [NoUsage EXCEPT !.output = Some(2)] }

\* Gemini stream chunks: chunk.text() returns the text of the chunk, or
\* throws (a candidate that was blocked)
GeminiChunk == [type |-> "chunk", usage |-> None, text |-> "returns"]

GeminiChunks == {GeminiChunk, [GeminiChunk EXCEPT !.text = "throws"]}

\* what chunk.text() throws
TextError == [kind |-> "Error", id |-> "text", message |-> "blocked"]

GeminiStreamResult == [kind |-> "result", id |-> "{stream, response}", message |-> ""]

DoStreamResult == [kind |-> "result", id |-> "doStream", message |-> ""]

\* a part of the stream of a doStream result
StreamPart == [type |-> "text-delta", usage |-> None]

\* promise.then(onResolved).catch(onRejected) with the promise resolved:
\* onResolved calls endLLMSpan(options); if that throws, onRejected calls
\* endLLMSpan with the thrown error
thenCatchResolved(sp, options, errorOptions, cfg) ==
  LET r == endLLMSpan(sp, options, cfg)
  IN IF r.threw
     THEN endLLMSpan(r.span, [errorOptions EXCEPT !.error = Some(JSONTypeError)], cfg).span
     ELSE r.span

\* the same chain with the promise rejected with e: onRejected alone runs
thenCatchRejected(sp, e, errorOptions, cfg) ==
  endLLMSpan(sp, [errorOptions EXCEPT !.error = Some(e)], cfg).span

\* wrapLanguageModel(model): a wrapped model only when the SDK is initialized
wrapLanguageModel ==
  /\ wrappedModel' = (wrappedModel \/ isInitialized)
  /\ UNCHANGED <<contextVars, lifecycleVars, spanVars, op, patched, handler>>

\* the patched generateContentStream resumes with the provider's result:
\* wrapGeminiStream creates the wrapped generator and chains the handlers
\* on the response promise
originalCreateResolvesGemini ==
  /\ op.pc = "awaiting"
  /\ op.kind = "gemini"
  /\ op' = [op EXCEPT !.pc = "generator", !.promise = "pending",
                      !.outcome = "returned", !.value = GeminiStreamResult]
  /\ UNCHANGED <<contextVars, lifecycleVars, spanVars, hooks>>

\* next() on the wrapped Gemini stream: a chunk is passed on
geminiStreamYields(chunk) ==
  /\ op.pc = "generator"
  /\ op.kind = "gemini"
  /\ Len(op.chunks) < MaxChunks
  /\ IF chunk.text = "returns"
     THEN /\ op' = [op EXCEPT !.chunks = Append(@, chunk),
                              !.delivered = Append(@, yielded(chunk))]
          /\ UNCHANGED spans
     ELSE \* chunk.text() throws inside the try block of the wrapper
          LET r == catchEnd(spans[op.span], TextError, MessagesPayload, TRUE,
                            instConfig[op.transport]) IN
          /\ spans' = [spans EXCEPT ![op.span] = r.span]
          /\ op' = [op EXCEPT !.pc = "finished", !.chunks = Append(@, chunk),
                              !.iteration = "threw", !.thrown = r.value]
  /\ UNCHANGED <<contextVars, lifecycleVars, spanCount, lastEnd, hooks>>

\* next() on the wrapped Gemini stream: the stream is exhausted
geminiStreamEnds ==
  /\ op.pc = "generator"
  /\ op.kind = "gemini"
  /\ op' = [op EXCEPT !.pc = "finished", !.source = "ended", !.iteration = "completed"]
  /\ UNCHANGED <<contextVars, lifecycleVars, spanVars, hooks>>

\* next() on the wrapped Gemini stream: the stream throws e
geminiStreamThrows(e) ==
  /\ op.pc = "generator"
  /\ op.kind = "gemini"
  /\ LET r == catchEnd(spans[op.span], e, MessagesPayload, TRUE,
                       instConfig[op.transport]) IN
     /\ spans' = [spans EXCEPT ![op.span] = r.span]
     /\ op' = [op EXCEPT !.pc = "finished", !.source = "threw", !.raised = e,
                         !.iteration = "threw", !.thrown = r.value]
  /\ UNCHANGED <<contextVars, lifecycleVars, spanCount, lastEnd, hooks>>

\* the Gemini response promise resolves
responseResolves(response) ==
  /\ op.kind = "gemini"
  /\ op.promise = "pending"
  /\ LET usage == IF response.usage = None THEN NoUsage ELSE response.usage[1] IN
     spans' = [spans EXCEPT ![op.span] =
       thenCatchResolved(
         spans[op.span],
         [NoOptions EXCEPT !.inputTokens = usage.input,
                           !.outputTokens = usage.output,
                           !.totalTokens = usage.total,
                           !.prompt = Some(MessagesPayload),
                           !.response = Some([id |-> response.id,
                                              serializable |-> response.serializable]),
                           !.streamed = Some(TRUE)],
         [NoOptions EXCEPT !.prompt = Some(MessagesPayload), !.streamed = Some(TRUE)],
         instConfig[op.transport])]
  /\ op' = [op EXCEPT !.promise = "resolved"]
  /\ UNCHANGED <<contextVars, lifecycleVars, spanCount, lastEnd, hooks>>

\* the Gemini response promise rejects with e
responseRejects(e) ==
  /\ op.kind = "gemini"
  /\ op.promise = "pending"
  /\ spans' = [spans EXCEPT ![op.span] =
       thenCatchRejected(
         spans[op.span], e,
         [NoOptions EXCEPT !.prompt = Some(MessagesPayload), !.streamed = Some(TRUE)],
         instConfig[op.transport])]
  /\ op' = [op EXCEPT !.promise = "rejected"]
  /\ UNCHANGED <<contextVars, lifecycleVars, spanCount, lastEnd, hooks>>

\* trackedDoStream(...args) of a wrapped model up to its first await
trackedDoStream ==
  /\ Startable
  /\ wrappedModel
  /\ IF instance = NoInstance
     THEN /\ op' = [NoOp EXCEPT !.kind = "vercel", !.streaming = TRUE,
                                !.pc = "done", !.outcome = "threw",
                                !.value = NotInitializedError]
          /\ UNCHANGED spanVars
     ELSE /\ spanCount < MaxSpans
          /\ spanCount' = spanCount + 1
          /\ spans' = [spans EXCEPT ![spanCount + 1] =
                         startLLMSpan("vercel-ai", "unknown", instConfig[instance])]
          /\ op' = [NoOp EXCEPT !.kind = "vercel", !.streaming = TRUE,
                                !.pc = "awaiting", !.transport = instance,
                                !.span = spanCount + 1, !.ran = TRUE]
          /\ UNCHANGED lastEnd
  /\ UNCHANGED <<contextVars, lifecycleVars, hooks>>

\* originalDoStream resolves: with a usage promise the handlers are chained
\* on it, without one the span is ended at once
originalDoStreamResolves(hasStreamUsage) ==
  /\ op.pc = "awaiting"
  /\ op.kind = "vercel"
  /\ IF hasStreamUsage
     THEN /\ op' = [op EXCEPT !.pc = "deferred", !.promise = "pending",
                              !.outcome = "returned", !.value = DoStreamResult]
          /\ UNCHANGED spans
     ELSE LET r == endLLMSpan(spans[op.span],
                              [NoOptions EXCEPT !.streamed = Some(TRUE)],
                              instConfig[op.transport])
              c == endLLMSpan(r.span,
                              [NoOptions EXCEPT !.error = Some(JSONTypeError),
                                                !.streamed = Some(TRUE)],
                              instConfig[op.transport])
          IN /\ spans' = [spans EXCEPT ![op.span] = IF r.threw THEN c.span ELSE r.span]
             /\ op' = [op EXCEPT !.pc = "done",
                                 !.outcome = IF r.threw THEN "threw" ELSE "returned",
                                 !.value = IF r.threw THEN JSONTypeError ELSE DoStreamResult]
  /\ UNCHANGED <<contextVars, lifecycleVars, spanCount, lastEnd, hooks>>

\* originalDoStream rejects with e
originalDoStreamRejects(e) ==
  /\ op.pc = "awaiting"
  /\ op.kind = "vercel"
  /\ LET r == endLLMSpan(spans[op.span],
                         [NoOptions EXCEPT !.error = Some(toError(e)),
                                           !.streamed = Some(TRUE)],
                         instConfig[op.transport]) IN
     /\ spans' = [spans EXCEPT ![op.span] = r.span]
     /\ op' = [op EXCEPT !.pc = "done", !.outcome = "threw",
                         !.value = IF r.threw THEN JSONTypeError ELSE rethrown(e)]
  /\ UNCHANGED <<contextVars, lifecycleVars, spanCount, lastEnd, hooks>>

\* the usage promise of the doStream result resolves
usageResolves(usage) ==
  /\ op.kind = "vercel"
  /\ op.promise = "pending"
  /\ spans' = [spans EXCEPT ![op.span] =
       thenCatchResolved(
         spans[op.span],
         [NoOptions EXCEPT !.inputTokens = usage.input,
                           !.outputTokens = usage.output,
                           !.totalTokens = usage.total,
                           !.streamed = Some(TRUE)],
         [NoOptions EXCEPT !.streamed = Some(TRUE)],
         instConfig[op.transport])]
  /\ op' = [op EXCEPT !.pc = "done", !.promise = "resolved"]
  /\ UNCHANGED <<contextVars, lifecycleVars, spanCount, lastEnd, hooks>>

\* the usage promise of the doStream result rejects with e
usageRejects(e) ==
  /\ op.kind = "vercel"
  /\ op.promise = "pending"
  /\ spans' = [spans EXCEPT ![op.span] =
       thenCatchRejected(spans[op.span], e,
                         [NoOptions EXCEPT !.streamed = Some(TRUE)],
                         instConfig[op.transport])]
  /\ op' = [op EXCEPT !.pc = "done", !.promise = "rejected"]
  /\ UNCHANGED <<contextVars, lifecycleVars, spanCount, lastEnd, hooks>>

\* the consumer reads a part from the stream of the doStream result, which
\* trackedDoStream returns as the model produced it
doStreamYields ==
  /\ op.kind = "vercel"
  /\ op.outcome = "returned"
  /\ op.source = "open"
  /\ Len(op.chunks) < MaxChunks
  /\ op' = [op EXCEPT !.chunks = Append(@, StreamPart), !.delivered = Append(@, StreamPart)]
  /\ UNCHANGED <<contextVars, lifecycleVars, spanVars, hooks>>

\* the stream of the doStream result is exhausted
doStreamEnds ==
  /\ op.kind = "vercel"
  /\ op.outcome = "returned"
  /\ op.source = "open"
  /\ op' = [op EXCEPT !.source = "ended", !.iteration = "completed"]
  /\ UNCHANGED <<contextVars, lifecycleVars, spanVars, hooks>>

\* ------------------------------------------------------- entry points
\* what the original create resolves with for a non-streaming call: a
\* completion with usage, one without, and a value JSON.stringify rejects
ProviderResults ==
  { [id |-> "completion", serializable |-> TRUE,
     usage |-> Some([input |-> Some(3), output |-> Some(1), total |-> Some(4)])],
    [id |-> "completion-without-usage", serializable |-> TRUE, usage |-> None],
    [id |-> "cyclic-completion", serializable |-> FALSE, usage |-> None] }

\* the value the caller of the patched method can receive for a result
ResultValue(result) == [kind |-> "result", id |-> result.id, message |-> ""]

\* how the function handed to withContext or traceFunction settles
FnOutcomes ==
  { [threw |-> FALSE, value |-> [kind |-> "result", id |-> "fn-result", message |-> ""]],
    [threw |-> TRUE,
     value |-> [kind |-> "Error", id |-> "e1", message |-> "provider failed"]],
    [threw |-> TRUE, value |-> [kind |-> "string", id |-> "s1", message |-> "boom"]] }

\* tracer.startSpan(name) of withContext, transport.startSpan(name) of
\* traceFunction
startSpan(kind, cfg) ==
  [NoSpan EXCEPT !.started = TRUE,
                 !.attrs = IF kind = "trace"
                           THEN [NoAttributes EXCEPT !.agentId = Some(cfg.agentId)]
                           ELSE NoAttributes]

\* the original create resolves with the result of a non-streaming call
originalCreateResolves(result) ==
  /\ op.pc = "awaiting"
  /\ op.kind = "openai"
  /\ ~op.streaming
  /\ LET usage == IF result.usage = None THEN NoUsage ELSE result.usage[1]
         r == tryEnd(spans[op.span],
                     [NoOptions EXCEPT !.inputTokens = usage.input,
                                       !.outputTokens = usage.output,
                                       !.totalTokens = usage.total,
                                       !.prompt = Some(MessagesPayload),
                                       !.response = Some([id |-> result.id,
                                                          serializable |-> result.serializable]),
                                       !.streamed = Some(FALSE)],
                     MessagesPayload, FALSE, instConfig[op.transport]) IN
     /\ spans' = [spans EXCEPT ![op.span] = r.span]
     /\ op' = [op EXCEPT !.pc = "done", !.result = ResultValue(result),
                         !.outcome = IF r.threw THEN "threw" ELSE "returned",
                         !.value = IF r.threw THEN r.value ELSE ResultValue(result)]
  /\ UNCHANGED <<contextVars, lifecycleVars, spanCount, lastEnd, hooks>>

\* withContext(traceContext, fn) or a function wrapped by traceFunction,
\* called: not initialized, fn runs and its outcome is the call's; else a
\* span is started around fn
tracedCall(kind, outcome) ==
  /\ Startable
  /\ IF ~isInitialized
     THEN /\ op' = [NoOp EXCEPT !.kind = kind, !.pc = "done", !.ran = TRUE,
                                !.outcome = IF outcome.threw THEN "threw" ELSE "returned",
                                !.value = outcome.value]
          /\ UNCHANGED spanVars
     ELSE /\ spanCount < MaxSpans
          /\ spanCount' = spanCount + 1
          /\ spans' = [spans EXCEPT ![spanCount + 1] =
                         startSpan(kind, instConfig[instance])]
          /\ op' = [NoOp EXCEPT !.kind = kind, !.pc = "awaitingFn", !.ran = TRUE,
                                !.transport = instance, !.span = spanCount + 1]
          /\ UNCHANGED lastEnd
  /\ UNCHANGED <<contextVars, lifecycleVars, hooks>>

withContext(outcome) == tracedCall("withContext", outcome)

\* how the function wrapped by traceFunction comes back: as FnOutcomes, at
\* once (a value returned or thrown) or through a Promise it returns
TraceOutcomes ==
  {[threw |-> o.threw, value |-> o.value, async |-> a] : o \in FnOutcomes, a \in BOOLEAN}

\* handleResult of traceFunction
handleResult(sp) == end(setStatus(sp, "OK", None))

\* handleError without its span.end()
handleError_WithoutEnd(sp, err) ==
  recordException(setStatus(sp, "ERROR", messageOf(toError(err))), toError(err))

\* handleError of traceFunction, up to its throw
handleError(sp, err) ==
  end(recordException(setStatus(sp, "ERROR", messageOf(toError(err))), toError(err)))

\* A function wrapped by traceFunction, called: not initialized, fn alone
\* runs; fn returning a Promise, the handlers are chained on it and settle
\* the span later (fnSettles); else handleResult or handleError runs before
\* the call returns.
traceFunction(outcome) ==
  IF outcome.async \/ ~isInitialized
  THEN tracedCall("trace", outcome)
  ELSE /\ Startable
       /\ spanCount < MaxSpans
       /\ spanCount' = spanCount + 1
       /\ spans' = [spans EXCEPT ![spanCount + 1] =
                      IF outcome.threw
                      THEN handleError(startSpan("trace", instConfig[instance]),
                                       outcome.value)
                      ELSE handleResult(startSpan("trace", instConfig[instance]))]
       /\ op' = [NoOp EXCEPT
                   !.kind = "trace", !.pc = "done", !.ran = TRUE,
                   !.transport = instance, !.span = spanCount + 1,
                   !.outcome = IF outcome.threw THEN "threw" ELSE "returned",
                   !.raised = IF outcome.threw THEN outcome.value ELSE NoValue,
                   !.value = IF outcome.threw THEN rethrown(outcome.value)
                             ELSE outcome.value]
       /\ UNCHANGED <<lastEnd, contextVars, lifecycleVars, hooks>>

\* fnSettles with span.end() after the try block instead of in a finally:
\* the throw of the catch block skips it
fnSettles_EndsOnSuccessOnly(outcome) ==
  /\ op.pc = "awaitingFn"
  /\ spans' = [spans EXCEPT ![op.span] =
       IF outcome.threw
       THEN recordException(
              setStatus(@, "ERROR", messageOf(toError(outcome.value))),
              toError(outcome.value))
       ELSE end(setStatus(@, "OK", None))]
  /\ op' = [op EXCEPT !.pc = "done",
                      !.outcome = IF outcome.threw THEN "threw" ELSE "returned",
                      !.raised = IF outcome.threw THEN outcome.value ELSE NoValue,
                      !.value = IF outcome.threw THEN rethrown(outcome.value)
                                ELSE outcome.value]
  /\ UNCHANGED <<contextVars, lifecycleVars, spanCount, lastEnd, hooks>>

\* fn settles inside the span: status, exception, end, and the outcome of
\* fn handed on
fnSettles(outcome) ==
  /\ op.pc = "awaitingFn"
  /\ spans' = [spans EXCEPT ![op.span] =
       IF outcome.threw
       THEN end(recordException(
                  setStatus(@, "ERROR", messageOf(toError(outcome.value))),
                  toError(outcome.value)))
       ELSE end(setStatus(@, "OK", None))]
  /\ op' = [op EXCEPT !.pc = "done",
                      !.outcome = IF outcome.threw THEN "threw" ELSE "returned",
                      !.raised = IF outcome.threw THEN outcome.value ELSE NoValue,
                      !.value = IF outcome.threw THEN rethrown(outcome.value)
                                ELSE outcome.value]
  /\ UNCHANGED <<contextVars, lifecycleVars, spanCount, lastEnd, hooks>>

\* ----------------------------------- frameworks/vercel-ai-sdk: streams
\* the stream result handed to trackStreamingCall, which is also returned
StreamResult == [kind |-> "result", id |-> "streamResult", message |-> ""]

\* a chunk of streamResult.textStream
TextChunk == [type |-> "text", usage |-> None]

\* if (options?.error): any value but a falsy one
Truthy(err) == err.kind # "undefined"

\* endStreamSpan that sets status OK whatever its options are
endStreamSpanOfCall_IgnoringError(sp, ended, error) ==
  IF ended THEN [span |-> sp, ended |-> TRUE]
  ELSE [span |-> end(setStatus(sp, "OK", None)), ended |-> TRUE]

\* endStreamSpan(options) of trackStreamingCall: the span and the flag as
\* the call leaves them
endStreamSpanOfCall(sp, ended, error) ==
  IF ended THEN [span |-> sp, ended |-> TRUE]
  ELSE [span |->
          IF error # None /\ Truthy(error[1])
          THEN end(recordException(
                     setStatus(sp, "ERROR", messageOf(error[1])), error[1]))
          ELSE end(setStatus(sp, "OK", None)),
        ended |-> TRUE]

\* trackStreamingCall(name, streamResult): not initialized, the result is
\* returned as it is; else a span is started and the handlers are chained
\* on the usage promise, or, without one, the text stream is wrapped
trackStreamingCall(hasStreamUsage, hasTextStream) ==
  /\ Startable
  /\ IF ~isInitialized
     THEN /\ op' = [NoOp EXCEPT !.kind = "vercel.stream", !.streaming = TRUE,
                                !.pc = "done", !.outcome = "returned",
                                !.value = StreamResult]
          /\ UNCHANGED spanVars
     ELSE /\ spanCount < MaxSpans
          /\ spanCount' = spanCount + 1
          /\ spans' = [spans EXCEPT ![spanCount + 1] =
                         startSpan("trace", instConfig[instance])]
          /\ op' = [NoOp EXCEPT
                      !.kind = "vercel.stream", !.streaming = TRUE,
                      !.transport = instance, !.span = spanCount + 1,
                      !.pc = IF hasStreamUsage THEN "deferred"
                             ELSE IF hasTextStream THEN "generator" ELSE "done",
                      !.promise = IF hasStreamUsage THEN "pending" ELSE "none",
                      !.outcome = "returned", !.value = StreamResult]
          /\ UNCHANGED lastEnd
  /\ UNCHANGED <<contextVars, lifecycleVars, hooks>>

\* streamResult.usage resolves: the token attributes, then endStreamSpan()
streamUsageResolves(usage) ==
  /\ op.kind = "vercel.stream"
  /\ op.promise = "pending"
  /\ LET counted == setIfDefined(setIfDefined(spans[op.span], "inputTokens", usage.input),
                                 "outputTokens", usage.output)
         r == endStreamSpanOfCall(counted, op.ended, None) IN
     /\ spans' = [spans EXCEPT ![op.span] = r.span]
     /\ op' = [op EXCEPT !.pc = "done", !.promise = "resolved", !.ended = r.ended]
  /\ UNCHANGED <<contextVars, lifecycleVars, spanCount, lastEnd, hooks>>

\* streamResult.usage rejects with e: endStreamSpan({ error: err })
streamUsageRejects(e) ==
  /\ op.kind = "vercel.stream"
  /\ op.promise = "pending"
  /\ LET r == endStreamSpanOfCall(spans[op.span], op.ended, Some(e)) IN
     /\ spans' = [spans EXCEPT ![op.span] = r.span]
     /\ op' = [op EXCEPT !.pc = "done", !.promise = "rejected", !.raised = e,
                         !.ended = r.ended]
  /\ UNCHANGED <<contextVars, lifecycleVars, spanCount, lastEnd, hooks>>

\* next() on the wrapped text stream: a chunk is passed on
textStreamYields ==
  /\ op.kind = "vercel.stream"
  /\ op.pc = "generator"
  /\ Len(op.chunks) < MaxChunks
  /\ op' = [op EXCEPT !.chunks = Append(@, TextChunk),
                      !.delivered = Append(@, yielded(TextChunk))]
  /\ UNCHANGED <<contextVars, lifecycleVars, spanVars, hooks>>

\* next() on the wrapped text stream: the original is exhausted
textStreamEnds ==
  /\ op.kind = "vercel.stream"
  /\ op.pc = "generator"
  /\ LET r == endStreamSpanOfCall(spans[op.span], op.ended, None) IN
     /\ spans' = [spans EXCEPT ![op.span] = r.span]
     /\ op' = [op EXCEPT !.pc = "finished", !.source = "ended",
                         !.iteration = "completed", !.ended = r.ended]
  /\ UNCHANGED <<contextVars, lifecycleVars, spanCount, lastEnd, hooks>>

\* next() on the wrapped text stream: the original throws e
textStreamThrows(e) ==
  /\ op.kind = "vercel.stream"
  /\ op.pc = "generator"
  /\ LET r == endStreamSpanOfCall(spans[op.span], op.ended, Some(toError(e))) IN
     /\ spans' = [spans EXCEPT ![op.span] = r.span]
     /\ op' = [op EXCEPT !.pc = "finished", !.source = "threw", !.raised = e,
                         !.iteration = "threw", !.thrown = rethrown(e),
                         !.ended = r.ended]
  /\ UNCHANGED <<contextVars, lifecycleVars, spanCount, lastEnd, hooks>>

\* return() on a wrapper generator, as a break or return in the consumer's
\* for-await loop makes it: the generator completes from where it is
\* suspended; its try statement has a catch block and no finally block, so
\* no code of the wrapper runs
generatorReturn ==
  /\ op.pc = "generator"
  /\ op.kind \in PullProviders \cup {"vercel.stream"}
  /\ op' = [op EXCEPT !.pc = "finished", !.source = "closed", !.iteration = "returned"]
  /\ UNCHANGED <<contextVars, lifecycleVars, spanVars, hooks>>

\* frameworks/mastra: the three tracking wrappers, called without metadata
\* or input
MastraWrappers == {"mastra.agent", "mastra.tool", "mastra.workflow"}

trackAgentExecution(outcome) == tracedCall("mastra.agent", outcome)

trackToolExecution(outcome) == tracedCall("mastra.tool", outcome)

trackWorkflowStep(outcome) == tracedCall("mastra.workflow", outcome)

\* fn settles inside a Mastra wrapper: on success the output is attached
\* (agent and tool, under includeContent) and the span ended; on a throw the
\* exception is recorded and the span ended, and err is rethrown. No branch
\* calls setStatus.
mastraFnSettles(outcome) ==
  /\ op.pc = "awaitingFn"
  /\ op.kind \in MastraWrappers
  /\ spans' = [spans EXCEPT ![op.span] =
       IF outcome.threw
       THEN end(recordException(@, toError(outcome.value)))
       ELSE IF instConfig[op.transport].includeContent /\ op.kind # "mastra.workflow"
       THEN end(setAttribute(@, "response", [json |-> outcome.value.id]))
       ELSE end(@)]
  /\ op' = [op EXCEPT !.pc = "done",
                      !.outcome = IF outcome.threw THEN "threw" ELSE "returned",
                      !.raised = IF outcome.threw THEN outcome.value ELSE NoValue,
                      !.value = IF outcome.threw THEN rethrown(outcome.value)
                                ELSE outcome.value]
  /\ UNCHANGED <<contextVars, lifecycleVars, spanCount, lastEnd, hooks>>

\* new AgentBasisCallbackHandler(): enabled is fixed at construction
newCallbackHandler ==
  /\ ~handler.constructed
  /\ handler' = [NoHandler EXCEPT !.constructed = TRUE, !.enabled = isInitialized]
  /\ UNCHANGED <<contextVars, lifecycleVars, spanVars, op, patched, wrappedModel>>

\* handler.handleLLMStart(llm, prompts, runId)
handleLLMStart(runId) ==
  /\ Startable
  /\ handler.constructed
  /\ IF ~handler.enabled
     THEN /\ op' = [NoOp EXCEPT !.kind = "langchain", !.pc = "done",
                                !.runId = runId, !.outcome = "returned"]
          /\ UNCHANGED <<spanVars, handler>>
     ELSE IF instance = NoInstance
     THEN /\ op' = [NoOp EXCEPT !.kind = "langchain", !.pc = "done", !.runId = runId,
                                !.outcome = "threw", !.value = NotInitializedError]
          /\ UNCHANGED <<spanVars, handler>>
     ELSE /\ spanCount < MaxSpans
          /\ spanCount' = spanCount + 1
          /\ spans' = [spans EXCEPT ![spanCount + 1] =
                         setAttribute(startLLMSpan("langchain", "unknown",
                                                   instConfig[instance]),
                                      "runId", runId)]
          /\ handler' = [handler EXCEPT !.spans[runId] = spanCount + 1]
          /\ op' = [NoOp EXCEPT !.kind = "langchain", !.pc = "done", !.runId = runId,
                                !.outcome = "returned", !.transport = instance,
                                !.span = spanCount + 1]
          /\ UNCHANGED lastEnd
  /\ UNCHANGED <<contextVars, lifecycleVars, patched, wrappedModel>>

\* handler.handleChainStart(chain, inputs, runId)
handleChainStart(runId) ==
  /\ Startable
  /\ handler.constructed
  /\ IF ~handler.enabled
     THEN /\ op' = [NoOp EXCEPT !.kind = "langchain.chain", !.pc = "done",
                                !.runId = runId, !.outcome = "returned"]
          /\ UNCHANGED <<spanVars, handler>>
     ELSE IF instance = NoInstance
     THEN /\ op' = [NoOp EXCEPT !.kind = "langchain.chain", !.pc = "done",
                                !.runId = runId, !.outcome = "threw",
                                !.value = NotInitializedError]
          /\ UNCHANGED <<spanVars, handler>>
     ELSE /\ spanCount < MaxSpans
          /\ spanCount' = spanCount + 1
          /\ spans' = [spans EXCEPT ![spanCount + 1] =
                         setAttribute(startSpan("trace", instConfig[instance]),
                                      "runId", runId)]
          /\ handler' = [handler EXCEPT !.spans[runId] = spanCount + 1]
          /\ op' = [NoOp EXCEPT !.kind = "langchain.chain", !.pc = "done",
                                !.runId = runId, !.outcome = "returned",
                                !.transport = instance, !.span = spanCount + 1]
          /\ UNCHANGED lastEnd
  /\ UNCHANGED <<contextVars, lifecycleVars, patched, wrappedModel>>

\* the span the run id maps to, or a span not started when it maps to none
spanOfRun(runId) ==
  IF handler.spans[runId] = 0 THEN NoSpan ELSE spans[handler.spans[runId]]

\* this.spans.delete(runId) left out
spansDelete_Keeping(h, runId) == h

\* this.spans.delete(runId)
spansDelete(h, runId) == [h EXCEPT !.spans[runId] = 0]

\* One of the end and error callbacks, which share their outline: nothing
\* when the handler is disabled or the Map has no span for the run; else
\* the span is finalized as `finalized` says and the entry deleted, unless
\* the finalization threw `error`.
endCallback(kind, runId, needsInstance, finalized, threw, error) ==
  /\ Startable
  /\ handler.constructed
  /\ spanOfRun(runId).endCalls < MaxEndCalls
  /\ LET called == [NoOp EXCEPT !.kind = kind, !.pc = "done", !.runId = runId] IN
     IF ~handler.enabled \/ handler.spans[runId] = 0
     THEN /\ op' = [called EXCEPT !.outcome = "returned"]
          /\ UNCHANGED <<spans, handler>>
     ELSE IF needsInstance /\ instance = NoInstance
     THEN /\ op' = [called EXCEPT !.span = handler.spans[runId], !.outcome = "threw",
                                  !.value = NotInitializedError]
          /\ UNCHANGED <<spans, handler>>
     ELSE /\ spans' = [spans EXCEPT ![handler.spans[runId]] = finalized]
          /\ handler' = IF threw THEN handler ELSE spansDelete(handler, runId)
          /\ op' = [called EXCEPT !.span = handler.spans[runId],
                                  !.transport = instance,
                                  !.outcome = IF threw THEN "threw" ELSE "returned",
                                  !.value = IF threw THEN error ELSE NoValue]
  /\ UNCHANGED <<contextVars, lifecycleVars, spanCount, lastEnd, patched,
                 wrappedModel>>

\* the configuration of the current instance, for a call that is only made
\* when there is one
currentConfig == IF instance = NoInstance THEN DEFAULT_CONFIG ELSE instConfig[instance]

\* handler.handleLLMEnd(output, runId)
handleLLMEnd(output, runId) ==
  LET usage == IF output.usage = None THEN NoUsage ELSE output.usage[1]
      r == endLLMSpan(spanOfRun(runId),
                      [NoOptions EXCEPT !.inputTokens = usage.input,
                                        !.outputTokens = usage.output,
                                        !.totalTokens = usage.total,
                                        !.response = Some([id |-> output.id,
                                                           serializable |-> output.serializable]),
                                        !.streamed = Some(FALSE)],
                      currentConfig)
  IN endCallback("langchain.llmEnd", runId, TRUE, r.span, r.threw, JSONTypeError)

\* handler.handleLLMError(error, runId)
handleLLMError(error, runId) ==
  LET r == endLLMSpan(spanOfRun(runId),
                      [NoOptions EXCEPT !.error = Some(error), !.streamed = Some(FALSE)],
                      currentConfig)
  IN endCallback("langchain.llmError", runId, TRUE, r.span, r.threw, JSONTypeError)

\* handler.handleChainEnd(outputs, runId): the outputs attached under
\* includeContent of the current configuration, if there is one
handleChainEnd(outputs, runId) ==
  LET withContent == instance # NoInstance /\ instConfig[instance].includeContent
      threw == withContent /\ ~JSONstringify(outputs).ok
      sp == spanOfRun(runId)
  IN endCallback("langchain.chainEnd", runId, FALSE,
                 IF threw THEN sp
                 ELSE IF withContent
                 THEN end(setAttribute(sp, "response", JSONstringify(outputs).text))
                 ELSE end(sp),
                 threw, JSONTypeError)

\* handler.handleChainError(error, runId)
handleChainError(error, runId) ==
  endCallback("langchain.chainError", runId, FALSE,
              end(recordException(spanOfRun(runId), error)), FALSE, NoValue)

\* ----------------------------------------------------------- core/context
\* The call trees: chains of execution the host application runs interleaved.
Trees == 1..MaxTrees

\* What context.active() and context.with() of the tracing API delegate to.
\* Transport's provider.register() is called without a contextManager and the
\* SDK registers none elsewhere, which leaves the API's no-op manager; an
\* application can have registered an AsyncLocalStorage manager of its own.
ContextManagers == {"noop", "AsyncLocalStorage"}

MetadataKeys == {"a", "b"}

NoEntries == [k \in MetadataKeys |-> None]

\* a TraceContext with every field absent
EmptyContext == [traceId |-> None, userId |-> None, sessionId |-> None, metadata |-> None]

ContextFields == {"traceId", "userId", "sessionId", "metadata"}

\* the trace contexts the application passes to withContext
TraceContexts ==
  { [EmptyContext EXCEPT !.userId = Some("u1"), !.traceId = Some("t1"),
                         !.metadata = Some([NoEntries EXCEPT !.a = Some(1)])],
    [EmptyContext EXCEPT !.userId = Some("u2"), !.sessionId = Some("s1"),
                         !.metadata = Some([NoEntries EXCEPT !.b = Some(2)])] }

\* A context is modelled by the two values it can hold: the metadata under
\* the AgentBasis key and the span under the key of the tracing API. The
\* root context, which holds neither, is None.
\* getMetadataFromContext(ctx): the metadata stored in the context, if any
getMetadataFromContext(ctx) == IF ctx = None THEN None ELSE ctx[1].metadata

\* trace.getSpan(ctx): the span stored in the context, if any
getSpan(ctx) == IF ctx = None THEN None ELSE ctx[1].span

\* trace.setSpan(ctx, span): a new context object holding the span
setSpan(ctx, span) ==
  Some([metadata |-> getMetadataFromContext(ctx), span |-> Some(span)])

\* createContextWithMetadata(parentContext, metadata): a new context object
createContextWithMetadata(parentContext, metadata) ==
  Some([metadata |-> Some(metadata), span |-> getSpan(parentContext)])

\* the scoping span withContext starts in call tree t at nesting depth d
scopeSpan(t, d) == [tree |-> t, depth |-> d]

\* { ...existingMetadata, ...traceContext }: a copy, field by field
mergeMetadata(existingMetadata, traceContext) ==
  LET existing == IF existingMetadata = None THEN EmptyContext ELSE existingMetadata[1]
  IN [f \in ContextFields |->
        IF traceContext[f] # None THEN traceContext[f] ELSE existing[f]]

\* the attributes withContext puts on its span
scopeAttributes(mergedMetadata) ==
  [userId |-> mergedMetadata.userId,
   sessionId |-> mergedMetadata.sessionId,
   traceId |-> mergedMetadata.traceId,
   entries |-> IF mergedMetadata.metadata = None THEN NoEntries
               ELSE mergedMetadata.metadata[1]]

NoScopeSpan == [started |-> FALSE, ended |-> FALSE, status |-> "UNSET",
                attributes |-> scopeAttributes(EmptyContext)]

\* setStatus and end of the scoping span when fn returned or threw
endScopeSpan(span, threw) ==
  [span EXCEPT !.status = IF threw THEN "ERROR" ELSE "OK", !.ended = TRUE]

\* context.active() in call tree t
contextActive(t) == IF contextManager = "noop" THEN None ELSE active[t]

\* the context of tree t while the callback of context.with(ctx, fn) runs
contextWith(t, ctx) == IF contextManager = "noop" THEN active[t] ELSE ctx

\* getCurrentContext() evaluated in call tree t
getCurrentContext(t) == getMetadataFromContext(contextActive(t))

\* no withContext call has been made; closed is the status of the scoping
\* span that ended last in each call tree
NoScopes ==
  /\ active = [t \in Trees |-> None]
  /\ scopes = [t \in Trees |-> <<>>]
  /\ closed = [t \in Trees |-> NoScopeSpan.status]

ContextInit ==
  /\ contextManager = "noop"
  /\ NoScopes

\* withContext with the parent's metadata object updated in place
withContextEnters_MutatingParent(t, traceContext) ==
  /\ isInitialized
  /\ Len(scopes[t]) < MaxDepth
  /\ LET parentContext == contextActive(t)
         mergedMetadata == mergeMetadata(getMetadataFromContext(parentContext), traceContext)
         newContext ==
           createContextWithMetadata(
             setSpan(parentContext, scopeSpan(t, Len(scopes[t]) + 1)), mergedMetadata)
         frame == [traceContext |-> traceContext,
                   metadata |-> mergedMetadata,
                   parentContext |-> parentContext,
                   span |-> [NoScopeSpan EXCEPT !.started = TRUE,
                               !.attributes = scopeAttributes(mergedMetadata)]]
     IN /\ scopes' = [scopes EXCEPT ![t] =
             Append([i \in 1..Len(@) |->
                       IF i = Len(@) THEN [@[i] EXCEPT !.metadata = mergedMetadata]
                       ELSE @[i]],
                    frame)]
        /\ active' = [active EXCEPT ![t] = contextWith(t, newContext)]
  /\ UNCHANGED <<contextManager, closed, lifecycleVars, spanVars, instrVars>>

\* withContext with the context kept in one variable of the module
withContextEnters_ModuleVariable(t, traceContext) ==
  /\ isInitialized
  /\ Len(scopes[t]) < MaxDepth
  /\ LET parentContext == contextActive(t)
         mergedMetadata == mergeMetadata(getMetadataFromContext(parentContext), traceContext)
         newContext ==
           createContextWithMetadata(
             setSpan(parentContext, scopeSpan(t, Len(scopes[t]) + 1)), mergedMetadata)
         frame == [traceContext |-> traceContext,
                   metadata |-> mergedMetadata,
                   parentContext |-> parentContext,
                   span |-> [NoScopeSpan EXCEPT !.started = TRUE,
                               !.attributes = scopeAttributes(mergedMetadata)]]
     IN /\ scopes' = [scopes EXCEPT ![t] = Append(@, frame)]
        /\ active' = [u \in Trees |-> contextWith(t, newContext)]
  /\ UNCHANGED <<contextManager, closed, lifecycleVars, spanVars, instrVars>>

\* withContext(traceContext, fn) called in call tree t, up to the start of
\* fn: the merged metadata, the scoping span and the new context, inside
\* which fn runs
withContextEnters(t, traceContext) ==
  /\ isInitialized
  /\ Len(scopes[t]) < MaxDepth
  /\ LET parentContext == contextActive(t)
         mergedMetadata == mergeMetadata(getMetadataFromContext(parentContext), traceContext)
         newContext ==
           createContextWithMetadata(
             setSpan(parentContext, scopeSpan(t, Len(scopes[t]) + 1)), mergedMetadata)
         frame == [traceContext |-> traceContext,
                   metadata |-> mergedMetadata,
                   parentContext |-> parentContext,
                   span |-> [NoScopeSpan EXCEPT !.started = TRUE,
                               !.attributes = scopeAttributes(mergedMetadata)]]
     IN /\ scopes' = [scopes EXCEPT ![t] = Append(@, frame)]
        /\ active' = [active EXCEPT ![t] = contextWith(t, newContext)]
  /\ UNCHANGED <<contextManager, closed, lifecycleVars, spanVars, instrVars>>

\* the settle step with the context of the scope left in place
withContextSettles_KeepsContext(t, threw) ==
  /\ scopes[t] # <<>>
  /\ LET frame == scopes[t][Len(scopes[t])] IN
     /\ closed' = [closed EXCEPT ![t] = endScopeSpan(frame.span, threw).status]
     /\ scopes' = [scopes EXCEPT ![t] = SubSeq(@, 1, Len(@) - 1)]
  /\ UNCHANGED <<contextManager, active, lifecycleVars, spanVars, instrVars>>

\* fn of the innermost scope of tree t returns or throws: the span gets its
\* status and is ended, the caller goes on in the context it called from
withContextSettles(t, threw) ==
  /\ scopes[t] # <<>>
  /\ LET frame == scopes[t][Len(scopes[t])] IN
     /\ closed' = [closed EXCEPT ![t] = endScopeSpan(frame.span, threw).status]
     /\ scopes' = [scopes EXCEPT ![t] = SubSeq(@, 1, Len(@) - 1)]
     /\ active' = [active EXCEPT ![t] =
          IF contextManager = "noop" THEN @ ELSE frame.parentContext]
  /\ UNCHANGED <<contextManager, lifecycleVars, spanVars, instrVars>>

\* the context a span is started in: parentContext ?? context.active(), the
\* callers of the SDK passing no parentContext
startedIn(sp, ctx) == [sp EXCEPT !.parent = getSpan(ctx)]

\* transport.startLLMSpan(name, provider, model) called in call tree t
startLLMSpanIn(t, provider) ==
  /\ instance # NoInstance
  /\ spanCount < MaxSpans
  /\ spanCount' = spanCount + 1
  /\ spans' = [spans EXCEPT ![spanCount + 1] =
                 startedIn(startLLMSpan(provider, ModelOf(provider), instConfig[instance]),
                           contextActive(t))]
  /\ op' = [NoOp EXCEPT !.kind = "startLLMSpan", !.pc = "done", !.tree = t,
                        !.transport = instance, !.span = spanCount + 1,
                        !.outcome = "returned"]
  /\ UNCHANGED <<lastEnd, contextVars, lifecycleVars, hooks>>

\* transport.startSpan(name) called in call tree t
startSpanIn(t) ==
  /\ instance # NoInstance
  /\ spanCount < MaxSpans
  /\ spanCount' = spanCount + 1
  /\ spans' = [spans EXCEPT ![spanCount + 1] =
                 startedIn(startSpan("trace", instConfig[instance]), contextActive(t))]
  /\ op' = [NoOp EXCEPT !.kind = "startSpan", !.pc = "done", !.tree = t,
                        !.transport = instance, !.span = spanCount + 1,
                        !.outcome = "returned"]
  /\ UNCHANGED <<lastEnd, contextVars, lifecycleVars, hooks>>

\* ------------------------------------------------------- specifications
\* the client lifecycle
Init == LifecycleInit /\ SpanInit /\ InstrInit /\ ContextInit

Next == LifecycleNext /\ UNCHANGED <<spanVars, instrVars, contextVars>>

Spec == Init /\ [][Next]_vars

\* The span controller: a Transport constructed by init(config) for each
\* configuration that resolves, and callers starting and ending its spans.
\* the client after init(config), for each configuration that resolves
InitializedLifecycle ==
  /\ env \in Envs
  /\ \E config \in InitArgs :
       /\ loadConfig(config, env).ok
       /\ instConfig = [i \in Instances |->
            IF i = 1 THEN loadConfig(config, env).config ELSE NoConfig]
       /\ instArgs = [i \in Instances |-> IF i = 1 THEN config ELSE NoArgs]
       /\ runtimeDebugMode = Some(loadConfig(config, env).config.debug)
       /\ lastInit = [NoInit EXCEPT !.ret = 1, !.args = config]
  /\ instance = 1
  /\ created = 1
  /\ transport = [i \in Instances |->
       IF i = 1 THEN [NoTransport EXCEPT !.state = "active"] ELSE NoTransport]
  /\ shutdownPromise = NoPromise
  /\ teardown = [t \in Callers |-> "none"]
  /\ callers = [c \in Callers |-> IdleCaller]
  /\ handlersRegistered = TRUE
  /\ listeners = [e \in Events |-> 1]
  /\ initCalls = 1
  /\ flushOp = NoFlush

TransportInit ==
  /\ SpanInit
  /\ InstrInit
  /\ ContextInit
  /\ InitializedLifecycle

TransportNext ==
  \/ callStartLLMSpan("openai", "gpt-4")
  \/ \E s \in SpanIds, options \in EndOptions : callEndLLMSpan(s, options)

SpecTransport == TransportInit /\ [][TransportNext]_vars

\* The pull-style stream wrappers: the SDK initialized and the providers
\* instrumented, streaming calls made one after the other.
StreamInit == TransportInit

StreamNext ==
  \/ \E provider \in PullProviders : instrument(provider)
  \/ \E provider \in PullProviders : patchedCreate(provider, TRUE)
  \/ originalCreateResolvesStream
  \/ \E e \in Thrown : originalCreateRejects(e)
  \/ \E chunk \in OpenAIChunks \cup AnthropicEvents : streamYields(chunk)
  \/ streamEnds
  \/ \E e \in Thrown : streamThrows(e)
  \/ nextAfterFinished

SpecStream == StreamInit /\ [][StreamNext]_vars

\* Streaming results with a deferred response or usage promise: Gemini
\* generateContentStream and doStream of a wrapped Vercel model.
DeferredInit == TransportInit

DeferredNext ==
  \/ instrument("gemini")
  \/ wrapLanguageModel
  \/ patchedCreate("gemini", TRUE)
  \/ \E e \in Thrown : originalCreateRejects(e)
  \/ originalCreateResolvesGemini
  \/ \E chunk \in GeminiChunks : geminiStreamYields(chunk)
  \/ geminiStreamEnds
  \/ \E e \in Thrown : geminiStreamThrows(e)
  \/ \E response \in GeminiResponses : responseResolves(response)
  \/ \E e \in Thrown : responseRejects(e)
  \/ trackedDoStream
  \/ \E hasStreamUsage \in BOOLEAN : originalDoStreamResolves(hasStreamUsage)
  \/ \E e \in Thrown : originalDoStreamRejects(e)
  \/ \E usage \in VercelUsages : usageResolves(usage)
  \/ \E e \in Thrown : usageRejects(e)
  \/ doStreamYields
  \/ doStreamEnds

SpecDeferred == DeferredInit /\ [][DeferredNext]_vars

\* Trace context scopes: the SDK initialized, call trees entering and
\* leaving withContext scopes interleaved, under either context manager.
ContextScopesInit ==
  /\ SpanInit
  /\ InstrInit
  /\ InitializedLifecycle
  /\ env = EmptyEnv
  /\ contextManager \in ContextManagers
  /\ NoScopes

ContextScopesNext ==
  \/ \E t \in Trees, traceContext \in TraceContexts : withContextEnters(t, traceContext)
  \/ \E t \in Trees, threw \in BOOLEAN : withContextSettles(t, threw)

SpecContext == ContextScopesInit /\ [][ContextScopesNext]_vars

\* The tracing entry points over the life of the client: init and
\* shutdown, instrument() and handler construction, and calls through
\* withContext, a traced function, the patched create and the callback
\* handler, one at a time.
\* the init arguments that turn content capture on
ContentArgs == {config \in InitArgs : config.includeContent = Some(TRUE)}

InstrumentedInit == Init /\ env = EmptyEnv

InstrumentedNext ==
  \/ \E config \in ContentArgs :
       /\ initCalls < MaxInits - 1     \* one init() call less than the lifecycle alone
       /\ init(config)
       /\ UNCHANGED <<spanVars, instrVars, contextVars>>
  \/ \E c \in Callers : shutdown(c) /\ UNCHANGED <<spanVars, instrVars, contextVars>>
  \/ \E t \in Callers, ok \in BOOLEAN :
       transportShutdownSettled(t, ok) /\ UNCHANGED <<spanVars, instrVars, contextVars>>
  \/ \E t \in Callers : teardownResume(t) /\ UNCHANGED <<spanVars, instrVars, contextVars>>
  \/ \E c \in Callers : shutdownOwnerResume(c) /\ UNCHANGED <<spanVars, instrVars, contextVars>>
  \/ \E c \in Callers : shutdownJoinedResume(c) /\ UNCHANGED <<spanVars, instrVars, contextVars>>
  \/ instrument("openai")
  \/ newCallbackHandler
  \/ \E outcome \in FnOutcomes : withContext(outcome)
  \/ \E outcome \in {o \in TraceOutcomes : o.async} : traceFunction(outcome)
  \/ \E outcome \in FnOutcomes : fnSettles(outcome)
  \/ patchedCreate("openai", FALSE)
  \/ \E result \in ProviderResults : originalCreateResolves(result)
  \/ \E e \in Thrown : originalCreateRejects(e)
  \/ handleLLMStart("run-1")

SpecInstrumented == InstrumentedInit /\ [][InstrumentedNext]_vars

\* The Mastra tracking wrappers on an initialized SDK, one call at a time.
MastraInit == TransportInit

MastraNext ==
  \/ \E outcome \in FnOutcomes : trackAgentExecution(outcome)
  \/ \E outcome \in FnOutcomes : trackToolExecution(outcome)
  \/ \E outcome \in FnOutcomes : trackWorkflowStep(outcome)
  \/ \E outcome \in FnOutcomes : mastraFnSettles(outcome)

SpecMastra == MastraInit /\ [][MastraNext]_vars

\* Configuration resolution on its own: the first init() of a process, for
\* every combination of arguments and environment.
ConfigInit == env \in ConfigEnvs /\ NotInitialized /\ SpanInit /\ InstrInit /\ ContextInit

firstInit(config) == initCalls = 0 /\ init(config)

ConfigNext ==
  (\E config \in ConfigArgs : firstInit(config))
    /\ UNCHANGED <<spanVars, instrVars, contextVars>>

SpecConfig == ConfigInit /\ [][ConfigNext]_vars

\* flush() over the life of the client: init, shutdown and flush calls in
\* any order, the provider's forceFlush succeeding or failing.
FlushInit == Init /\ env = EmptyEnv

FlushNext ==
  /\ \/ \E config \in ContentArgs : init(config)
     \/ \E c \in Callers : shutdown(c)
     \/ \E t \in Callers, ok \in BOOLEAN : transportShutdownSettled(t, ok)
     \/ \E t \in Callers : teardownResume(t)
     \/ \E c \in Callers : shutdownOwnerResume(c)
     \/ \E c \in Callers : shutdownJoinedResume(c)
     \/ flush
     \/ \E ok \in BOOLEAN : forceFlushSettles(ok)
  /\ UNCHANGED <<spanVars, instrVars, contextVars>>

SpecFlush == FlushInit /\ [][FlushNext]_vars

\* The push-style wrapper of Anthropic messages.stream: the SDK initialized,
\* stream() calls one after the other, each stream emitting its events in
\* any order and number.
PushInit == TransportInit

PushNext ==
  \/ instrument("anthropic")
  \/ \E outcome \in OriginalStreamOutcomes : patchedStream(outcome)
  \/ \E event \in MessageStreamEvents : streamEmits(event)
  \/ endStreamSpanReturns

SpecPush == PushInit /\ [][PushNext]_vars

\* trackStreamingCall on an initialized SDK: stream results with a usage
\* promise, with a text stream only, or with neither, one after the other.
TrackedInit == TransportInit

TrackedNext ==
  \/ \E hasStreamUsage \in BOOLEAN, hasTextStream \in BOOLEAN :
       trackStreamingCall(hasStreamUsage, hasTextStream)
  \/ \E usage \in VercelUsages : streamUsageResolves(usage)
  \/ \E e \in Thrown : streamUsageRejects(e)
  \/ textStreamYields
  \/ textStreamEnds
  \/ \E e \in Thrown : textStreamThrows(e)
  \/ nextAfterFinished

SpecTracked == TrackedInit /\ [][TrackedNext]_vars

\* The LangChain callback handler on an initialized SDK, with content
\* capture on or off: start, end and error callbacks of LLM and chain runs
\* in any order, for two run ids.
LangChainInit == TransportInit /\ env = EmptyEnv

\* what the end callbacks are handed: an LLM result with token usage and one
\* JSON.stringify rejects, chain outputs that serialize and that do not
LLMResults == {output \in ProviderResults : output.usage # None \/ ~output.serializable}

ChainValues == {outputs \in Payloads : outputs.id # "messages"}

LangChainNext ==
  \/ newCallbackHandler
  \/ \E runId \in RunIds : handleLLMStart(runId)
  \/ \E runId \in RunIds : handleChainStart(runId)
  \/ \E output \in LLMResults, runId \in RunIds : handleLLMEnd(output, runId)
  \/ \E error \in {e \in Thrown : e.kind = "Error"}, runId \in RunIds :
       handleLLMError(error, runId)
  \/ \E outputs \in ChainValues, runId \in RunIds : handleChainEnd(outputs, runId)
  \/ \E error \in {e \in Thrown : e.kind = "Error"}, runId \in RunIds :
       handleChainError(error, runId)

SpecLangChain == LangChainInit /\ [][LangChainNext]_vars

\* Spans started from inside and outside withContext scopes: the call trees
\* of SpecContext, each also starting spans on the transport.
ParentInit == ContextScopesInit

ParentNext ==
  \/ \E t \in Trees, traceContext \in TraceContexts : withContextEnters(t, traceContext)
  \/ \E t \in Trees, threw \in BOOLEAN : withContextSettles(t, threw)
  \/ \E t \in Trees, provider \in PullProviders : startLLMSpanIn(t, provider)
  \/ \E t \in Trees : startSpanIn(t)

SpecParent == ParentInit /\ [][ParentNext]_vars

\* Functions wrapped by traceFunction on an initialized SDK, called one
\* after the other, each returning, throwing, or returning a Promise that
\* is fulfilled or rejected; withContext calls are made between them.
TraceInit == TransportInit

TraceNext ==
  \/ \E outcome \in TraceOutcomes : traceFunction(outcome)
  \/ \E outcome \in FnOutcomes : withContext(outcome)
  \/ \E outcome \in FnOutcomes : fnSettles(outcome)

SpecTrace == TraceInit /\ [][TraceNext]_vars

\* The lifecycle under the scheduling of the runtime: provider.shutdown()
\* settles (the batch processor bounds its last export by a timeout), and a
\* continuation queued as a microtask is run.
LifecycleFairness ==
  LET Step(A) == A /\ UNCHANGED <<spanVars, instrVars, contextVars>> IN
  /\ WF_vars(Step(\E t \in Callers, ok \in BOOLEAN : transportShutdownSettled(t, ok)))
  /\ WF_vars(Step(\E t \in Callers : teardownResume(t)))
  /\ WF_vars(Step(\E c \in Callers : shutdownOwnerResume(c)))
  /\ WF_vars(Step(\E c \in Callers : shutdownJoinedResume(c)))

SpecLive == Init /\ [][Next]_vars /\ LifecycleFairness


\* The consumer of a wrapped stream: it pulls chunks until the stream ends
\* or throws, or stops early; a consumer that holds a wrapper does one of
\* these.
ConsumerInit == TransportInit

consumerStep ==
  \/ \E chunk \in OpenAIChunks \cup AnthropicEvents : streamYields(chunk)
  \/ streamEnds
  \/ \E e \in Thrown : streamThrows(e)
  \/ textStreamYields
  \/ textStreamEnds
  \/ \E e \in Thrown : textStreamThrows(e)
  \/ generatorReturn

ConsumerNext ==
  \/ \E provider \in PullProviders : instrument(provider)
  \/ \E provider \in PullProviders : patchedCreate(provider, TRUE)
  \/ originalCreateResolvesStream
  \/ trackStreamingCall(FALSE, TRUE)
  \/ consumerStep

SpecConsumer == ConsumerInit /\ [][ConsumerNext]_vars /\ WF_vars(consumerStep)

\* The provider modules on an initialized SDK: instrument() and
\* uninstrument() of each, in any order and any number of times.
PatchInit ==
  /\ SpanInit
  /\ ContextInit
  /\ InitializedLifecycle
  /\ op = NoOp
  /\ isInstrumented = [p \in Providers |-> FALSE]
  /\ prototypes \in {Unpatched(protoChat) : protoChat \in BOOLEAN}
  /\ originalMethods = NoOriginals
  /\ handler = NoHandler
  /\ wrappedModel = FALSE

PatchNext ==
  \/ \E provider \in Providers : instrument(provider)
  \/ \E provider \in Providers : uninstrument(provider)

SpecPatch == PatchInit /\ [][PatchNext]_vars

\* ----------------------------------------------------------------- claims

\* C1: every shutdown() call issued while the SDK is initialized resolves only
\* after one teardown of that instance has run: Transport.shutdown() was
\* invoked exactly once for the instance the call was issued on, and that
\* instance was cleared by the time the call's promise resolved.
C1_ShutdownTearsDownExactlyOnce ==
  /\ \A i \in Instances : transport[i].shutdownCalls <= 1
  /\ \A c \in Callers :
       (callers[c].pc = "done" /\ callers[c].inst # NoInstance)
         => /\ transport[callers[c].inst].shutdownCalls = 1
            /\ transport[callers[c].inst].state = "down"
            /\ callers[c].seen # callers[c].inst

\* C2: while no shutdown() intervenes, an init() call made on an initialized
\* SDK returns the existing instance, does not throw, and leaves the instance
\* and its configuration as the first call resolved them.
C2_InitFirstCallerWins ==
  [][(initCalls' # initCalls /\ instance # NoInstance)
       => /\ lastInit'.ret = instance
          /\ ~lastInit'.threw
          /\ instance' = instance
          /\ instConfig' = instConfig
          /\ getConfig' = loadConfig(instArgs[instance], env).config]_vars

\* the case of C2: a later init() with other arguments (here arguments that
\* would not even validate) returned the instance the first call created
C2_Witness ==
  /\ instance # NoInstance
  /\ lastInit.ret = instance
  /\ lastInit.args # instArgs[instance]
  /\ ~loadConfig(lastInit.args, env).ok
  /\ getConfig = loadConfig(instArgs[instance], env).config

\* an endLLMSpan call on span s happens in this step
EndCalled(s) == spans'[s].endCalls # spans[s].endCalls

\* C3: a second endLLMSpan call on a span that has already been ended
\* changes no attribute or status of the span, hands nothing further to the
\* exporter, and does not throw.
C3_EndLLMSpanIdempotent ==
  [][\A s \in SpanIds :
       (EndCalled(s) /\ spans[s].ended)
         => /\ spans'[s].attrs = spans[s].attrs
            /\ spans'[s].status = spans[s].status
            /\ spans'[s].statusMessage = spans[s].statusMessage
            /\ spans'[s].exported = spans[s].exported
            /\ ~lastEnd'.threw]_vars

\* C8: with includeContent=false, ending an LLM span with prompt and
\* response payloads sets neither llm.prompt nor llm.response; with
\* includeContent=true the same call sets both to the serialized payloads.
C8_IncludeContentGatesPayloads ==
  [][\A s \in SpanIds :
       ( /\ EndCalled(s)
         /\ ~spans[s].ended
         /\ lastEnd'.options.prompt # None
         /\ lastEnd'.options.response # None
         /\ JSONstringify(lastEnd'.options.prompt[1]).ok
         /\ JSONstringify(lastEnd'.options.response[1]).ok )
         => IF instConfig[instance].includeContent
            THEN /\ spans'[s].attrs.prompt =
                      Some(JSONstringify(lastEnd'.options.prompt[1]).text)
                 /\ spans'[s].attrs.response =
                      Some(JSONstringify(lastEnd'.options.response[1]).text)
            ELSE /\ spans'[s].attrs.prompt = None
                 /\ spans'[s].attrs.response = None]_vars

\* C8: a span ended with both payloads under includeContent=false
C8_Witness ==
  /\ lastEnd.span # 0
  /\ ~instConfig[instance].includeContent
  /\ lastEnd.options.prompt # None
  /\ lastEnd.options.response # None
  /\ JSONstringify(lastEnd.options.response[1]).ok
  /\ spans[lastEnd.span].ended
  /\ spans[lastEnd.span].endCalls = 1
  /\ spans[lastEnd.span].attrs.prompt = None
  /\ spans[lastEnd.span].attrs.response = None
  /\ spans[lastEnd.span].attrs.inputTokens = Some(3)

\* C7: when the wrapped pull-style stream throws a value e during
\* iteration, the span carries error status and the consumer's iteration
\* fails with that same value e, also when e is not an Error instance.
C7_StreamErrorRethrownUnchanged ==
  op.source = "threw"
    => /\ op.iteration = "threw"
       /\ op.thrown = op.raised
       /\ spans[op.span].ended
       /\ spans[op.span].status = "ERROR"
       /\ spans[op.span].exception = Some(toError(op.raised))

\* C7: a stream that threw a string after a chunk, the string reaching the consumer
C7_Witness ==
  /\ op.source = "threw"
  /\ op.raised.kind = "string"
  /\ Len(op.chunks) >= 1
  /\ op.thrown = op.raised
  /\ op.thrown # toError(op.raised)
  /\ spans[op.span].status = "ERROR"

\* the last non-absent value of a usage field over the chunks received
LastNonAbsent(chunks, field) ==
  LET carrying == {i \in 1..Len(chunks) :
                     /\ chunks[i].usage # None
                     /\ chunks[i].usage[1][field] # None}
      last == CHOOSE i \in carrying : \A j \in carrying : j <= i
  IN IF carrying = {} THEN None ELSE chunks[last].usage[1][field]

\* C9: for a pull-style stream that completes normally, each token count on
\* the finalized span equals the last non-absent value of that field over
\* all chunks, independently per field.
C9_TokenCountsLastNonAbsent ==
  (op.source = "ended" /\ op.iteration = "completed")
    => /\ LastNonAbsent(op.chunks, "input") # None
            => spans[op.span].attrs.inputTokens = LastNonAbsent(op.chunks, "input")
       /\ LastNonAbsent(op.chunks, "output") # None
            => spans[op.span].attrs.outputTokens = LastNonAbsent(op.chunks, "output")
       /\ LastNonAbsent(op.chunks, "total") # None
            => spans[op.span].attrs.totalTokens = LastNonAbsent(op.chunks, "total")

\* C10: if a pull-style stream throws after chunk k, the span is finalized
\* in that step with error status, exactly once, and nothing that happens
\* later changes the span.
C10_StreamErrorFinalizesOnce ==
  [][/\ (op'.source = "threw" /\ op.source # "threw")
          => /\ spans'[op'.span].ended
             /\ spans'[op'.span].status = "ERROR"
             /\ spans'[op'.span].endCalls = 1
             /\ spans'[op'.span].exported = 1
     /\ op.source = "threw" => spans'[op.span] = spans[op.span]]_vars

\* C10: a stream that threw after a chunk, polled again after the throw
C10_Witness ==
  /\ op.source = "threw"
  /\ Len(op.chunks) >= 1
  /\ op.pulls >= 1
  /\ spans[op.span].ended
  /\ spans[op.span].status = "ERROR"
  /\ spans[op.span].endCalls = 1

\* C4: for a streaming result with a deferred usage or response promise,
\* endLLMSpan is never invoked twice for the same span, whatever completion
\* paths fire, and the status of an ended span is the one the first path set.
C4_DeferredFinalizedOnce ==
  [][\A s \in SpanIds :
       /\ spans'[s].endCalls <= 1
       /\ spans[s].ended => spans'[s].status = spans[s].status]_vars

\* C5: a tracing entry point called while the SDK is not initialized runs
\* the wrapped user operation and does not throw an SDK error.
C5_UninitializedEntryPointFallsThrough ==
  (op.pc = "done" /\ op.kind # "none" /\ op.transport = NoInstance)
    => /\ op.value # NotInitializedError
       /\ op.kind # "langchain" => op.ran

\* C6: when the provider call of a patched method succeeded, the patched
\* method returns the provider's result, whatever happens inside the
\* telemetry layer while the span is finalized.
C6_TelemetryFailureContained ==
  (op.pc = "done" /\ op.kind = "openai" /\ ~op.streaming /\ op.result # NoValue)
    => /\ op.outcome = "returned"
       /\ op.value = op.result

\* the merge of an outer and an inner trace context: the inner fields win,
\* fields of the outer alone stay
MergeOf(outer, inner) ==
  [f \in ContextFields |-> IF inner[f] # None THEN inner[f] ELSE outer[f]]

\* C11: with the SDK initialized, getCurrentContext() inside
\* withContext(A, () => withContext(B, ...)) is the merge of A and B in which
\* B's fields win and A-only fields stay, and in the outer scope alone,
\* also after the inner scope has exited, it is A.
C11_NestedContextMerges ==
  \A t \in Trees :
    /\ Len(scopes[t]) = 1
         => getCurrentContext(t) = Some(scopes[t][1].traceContext)
    /\ Len(scopes[t]) = 2
         => getCurrentContext(t) =
              Some(MergeOf(scopes[t][1].traceContext, scopes[t][2].traceContext))

\* C12: where the outer scope supplied metadata entry a and the inner scope
\* metadata entry b, the ambient context of the inner scope, when there is
\* one, holds both entries.
C12_NestedMetadataEntriesMerge ==
  \A t \in Trees :
    ( /\ Len(scopes[t]) = 2
      /\ scopes[t][1].traceContext.metadata = Some([NoEntries EXCEPT !.a = Some(1)])
      /\ scopes[t][2].traceContext.metadata = Some([NoEntries EXCEPT !.b = Some(2)])
      /\ getCurrentContext(t) # None )
      => /\ getCurrentContext(t)[1].metadata # None
         /\ getCurrentContext(t)[1].metadata[1].a = Some(1)
         /\ getCurrentContext(t)[1].metadata[1].b = Some(2)

\* C13: when fn of a withContext scope completes, returning or throwing,
\* getCurrentContext() at the call site is again what it was before the call.
C13_ContextDiscardedOnSettle ==
  [][\A t \in Trees :
       Len(scopes'[t]) < Len(scopes[t])
         => getCurrentContext(t)' =
              getMetadataFromContext(scopes[t][Len(scopes[t])].parentContext)]_vars

\* C13: under a context manager that propagates, a scope that threw has been
\* left and the enclosing scope sees its own context again
C13_Witness ==
  \E t \in Trees :
    /\ contextManager = "AsyncLocalStorage"
    /\ closed[t] = "ERROR"
    /\ Len(scopes[t]) = 1
    /\ getCurrentContext(t) = Some(scopes[t][1].metadata)

\* the metadata the enclosing scopes of tree t add up to, outermost first
RECURSIVE OwnMetadata(_, _)
OwnMetadata(t, n) ==
  IF n = 0 THEN None
  ELSE Some(mergeMetadata(OwnMetadata(t, n - 1), scopes[t][n].traceContext))

\* C14: in each call tree, whatever the other trees do in between,
\* getCurrentContext() returns nothing but the metadata of the tree's own
\* enclosing scopes.
C14_TreesIsolated ==
  \A t \in Trees :
    \/ getCurrentContext(t) = None
    \/ /\ scopes[t] # <<>>
       /\ getCurrentContext(t) = OwnMetadata(t, Len(scopes[t]))

\* C14: two trees inside scopes of their own, each seeing its own metadata
C14_Witness ==
  \E t, u \in Trees :
    /\ t # u
    /\ Len(scopes[t]) = 2
    /\ scopes[t][1].traceContext # scopes[t][2].traceContext
    /\ Len(scopes[u]) = 1
    /\ getCurrentContext(t) = OwnMetadata(t, 2)
    /\ getCurrentContext(u) = OwnMetadata(u, 1)
    /\ getCurrentContext(t) # getCurrentContext(u)
    /\ getCurrentContext(u) # None

\* C15: opening or leaving a scope changes the metadata of no frame that
\* stays open, and a frame's metadata is the copy-merge of what was ambient
\* when it was opened and what it was given: nothing a child added shows in
\* its parent or in a sibling opened later.
C15_ParentFrameUnchanged ==
  [][\A t \in Trees :
       /\ \A i \in 1..Len(scopes[t]) :
            i <= Len(scopes'[t]) => scopes'[t][i].metadata = scopes[t][i].metadata
       /\ \A i \in 1..Len(scopes'[t]) :
            scopes'[t][i].metadata =
              mergeMetadata(IF i = 1 \/ contextManager = "noop" THEN None
                            ELSE Some(scopes'[t][i - 1].metadata),
                            scopes'[t][i].traceContext)]_vars

\* C15: a sibling scope opened after a child scope was left, holding the
\* parent's fields and its own and nothing of the child
C15_Witness ==
  \E t \in Trees :
    /\ contextManager = "AsyncLocalStorage"
    /\ closed[t] # "UNSET"
    /\ Len(scopes[t]) = 2
    /\ scopes[t][1].metadata = scopes[t][1].traceContext
    /\ scopes[t][2].traceContext # scopes[t][1].traceContext
    /\ scopes[t][2].metadata =
         MergeOf(scopes[t][1].traceContext, scopes[t][2].traceContext)
    /\ getCurrentContext(t) = Some(scopes[t][2].metadata)

\* the field of the init() arguments that is out of its bounds, if any
OffendingField(config) ==
  IF config.batchSize # None /\ config.batchSize[1] < 1 THEN "batchSize"
  ELSE IF config.flushIntervalMs # None /\ config.flushIntervalMs[1] < 100
  THEN "flushIntervalMs"
  ELSE IF config.maxRetries # None /\ config.maxRetries[1] < 0 THEN "maxRetries"
  ELSE ""

\* C16: init() on an SDK that is not initialized, with credentials and a
\* numeric field out of its bounds, throws an error naming the field and
\* changes nothing: no instance, no transport, no exit hook, no debug
\* override, no span.
C16_InvalidInitLeavesNoTrace ==
  [][( /\ initCalls' # initCalls
       /\ instance = NoInstance
       /\ lastInit'.args.apiKey # None
       /\ lastInit'.args.agentId # None
       /\ OffendingField(lastInit'.args) # "" )
       => /\ lastInit'.threw
          /\ lastInit'.error = OffendingField(lastInit'.args)
          /\ instance' = NoInstance
          /\ ~isInitialized'
          /\ created' = created
          /\ transport' = transport
          /\ listeners' = listeners
          /\ handlersRegistered' = handlersRegistered
          /\ runtimeDebugMode' = runtimeDebugMode
          /\ spans' = spans /\ spanCount' = spanCount]_vars

\* C16: an init() with batchSize 0 has thrown on an SDK that has no instance
C16_Witness ==
  /\ lastInit.threw
  /\ lastInit.error = "batchSize"
  /\ lastInit.args.batchSize = Some(0)
  /\ lastInit.args.apiKey = Some("test-key")
  /\ instance = NoInstance
  /\ \A e \in Events : listeners[e] = 0
  /\ runtimeDebugMode = None

\* the step in which the promise of shutdown() invocation c settles
Completes(c) == callers[c].pc # "done" /\ callers'[c].pc = "done"

\* C17: when a shutdown() call completes and no init() was made since it was
\* issued, isInitialized() is false and getConfig() is none; an init() that
\* follows with a valid configuration creates a new instance with a new
\* transport, and getConfig() is the configuration resolved from its arguments.
C17_ReinitAfterShutdown ==
  [][ /\ \A c \in Callers :
           (Completes(c) /\ instance' \in {NoInstance, callers'[c].inst})
             => ~isInitialized' /\ getConfig' = NoConfig
      /\ ( /\ initCalls' # initCalls /\ instance = NoInstance
           /\ loadConfig(lastInit'.args, env).ok )
           => /\ ~lastInit'.threw
              /\ lastInit'.ret = instance' /\ isInitialized'
              /\ instance' = created' /\ created' = created + 1
              /\ transport[instance'].state = "none"
              /\ transport'[instance'] = [NoTransport EXCEPT !.state = "active"]
              /\ getConfig' = loadConfig(lastInit'.args, env).config ]_vars

\* C18: an endLLMSpan call changes no attribute and no status of any span
\* other than the one it was given, and the first endLLMSpan call on a span
\* that returns leaves that span ended with the status and the token and
\* stream attributes of its own options, whatever the order in which the
\* spans are ended.
C18_SpansIndependent ==
  [][(\E e \in SpanIds : EndCalled(e))
       => LET s == lastEnd'.span
              options == lastEnd'.options
          IN /\ \A r \in SpanIds \ {s} : spans'[r] = spans[r]
             /\ (spans[s].endCalls = 0 /\ ~lastEnd'.threw)
                  => /\ spans'[s].ended
                     /\ spans'[s].status = IF options.error # None THEN "ERROR" ELSE "OK"
                     /\ spans'[s].attrs.inputTokens = options.inputTokens
                     /\ spans'[s].attrs.outputTokens = options.outputTokens
                     /\ spans'[s].attrs.totalTokens = options.totalTokens
                     /\ spans'[s].attrs.streamed = options.streamed]_vars

\* C18: span 1 was started before span 2 and ended after it, each by a single
\* call, one successfully with usage and the other with an error
C18_Witness ==
  /\ lastEnd.span = 1
  /\ spans[1].endCalls = 1 /\ spans[2].endCalls = 1
  /\ spans[1].ended /\ spans[2].ended
  /\ spans[1].status = "OK" /\ spans[2].status = "ERROR"
  /\ spans[1].attrs.inputTokens = Some(3) /\ spans[2].attrs.inputTokens = None
  /\ spans[1].attrs.streamed = Some(FALSE) /\ spans[2].attrs.streamed = Some(TRUE)

\* C19: in every state reached by init() and shutdown() calls and process
\* events, each of beforeExit, SIGINT and SIGTERM has at most one handler of
\* the SDK, and it has one exactly when handlersRegistered is true.
C19_HandlersMatchFlag ==
  \A e \in Events :
    /\ listeners[e] <= 1
    /\ (listeners[e] = 1) <=> handlersRegistered

\* C19: the second init/shutdown cycle, after a redundant init() and a
\* completed shutdown() of the first instance, with the handlers registered
C19_Witness ==
  /\ instance = 2
  /\ initCalls = MaxInits
  /\ \E c \in Callers : callers[c].pc = "done" /\ callers[c].inst = 1
  /\ handlersRegistered
  /\ \A e \in Events : listeners[e] = 1

\* teardown t has removed the hooks and awaits, or has just been handed, the
\* outcome of Transport.shutdown()
Draining(t) == teardown[t] \in {"draining", "settled"}

\* C20: a teardown removes the exit hooks in the step that invokes
\* Transport.shutdown(); while the transport drains and until the drain has
\* settled the hooks stay removed, the singleton stays set and the debug
\* override stays set; the singleton is cleared only by a teardown whose drain
\* has settled, and the debug override is never reset before the singleton is
\* cleared.
C20_TeardownOrder ==
  [][ /\ \A i \in Instances :
           transport'[i].shutdownCalls # transport[i].shutdownCalls
             => /\ ~handlersRegistered' /\ \A e \in Events : listeners'[e] = 0
                /\ transport'[i].state = "draining"
                /\ instance' = i /\ runtimeDebugMode' # None
      /\ \A t \in Callers :
           Draining(t)'
             => /\ ~handlersRegistered' /\ \A e \in Events : listeners'[e] = 0
                /\ instance' = callers'[t].inst /\ isInitialized'
                /\ runtimeDebugMode' # None
      /\ (instance # NoInstance /\ instance' = NoInstance)
           => /\ \E t \in Callers : teardown[t] = "settled" /\ callers[t].inst = instance
              /\ transport[instance].state = "down"
              /\ runtimeDebugMode # None
      /\ (runtimeDebugMode # None /\ runtimeDebugMode' = None)
           => instance' = NoInstance /\ ~handlersRegistered' ]_vars

\* C20: the drain of a teardown has settled and the teardown has not resumed:
\* hooks removed, transport down, singleton and debug override still set
C20_Witness ==
  \E t \in Callers :
    /\ teardown[t] = "settled"
    /\ \A e \in Events : listeners[e] = 0
    /\ transport[callers[t].inst].state = "down"
    /\ instance = callers[t].inst
    /\ isInitialized
    /\ runtimeDebugMode = Some(TRUE)

\* C21: flush() never throws; called with no instance it returns false and
\* changes no state of the SDK; it returns false when the provider's
\* forceFlush failed, and true only when the provider's forceFlush succeeded.
C21_FlushNeverThrows ==
  [][flushOp' # flushOp
       => /\ ~flushOp'.threw
          /\ (flushOp'.pc = "done") => flushOp'.ret # None
          /\ (flushOp.pc # "awaiting" /\ instance = NoInstance)
               => /\ flushOp'.pc = "done" /\ flushOp'.ret = Some(FALSE)
                  /\ flushOp'.provider = None
                  /\ UNCHANGED <<instance, created, instConfig, transport,
                                 shutdownPromise, teardown, callers,
                                 handlersRegistered, listeners, runtimeDebugMode,
                                 spanVars, instrVars, contextVars>>
          /\ (flushOp'.provider = Some(FALSE)) => flushOp'.ret = Some(FALSE)
          /\ (flushOp'.ret = Some(TRUE)) => flushOp'.provider = Some(TRUE)]_vars

\* C21: the second flush() call, made after the one instance was shut down,
\* returned false without reaching a provider
C21_Witness ==
  /\ flushOp.calls = 2
  /\ flushOp.pc = "done"
  /\ flushOp.inst = NoInstance
  /\ flushOp.ret = Some(FALSE)
  /\ created = 1
  /\ instance = NoInstance

\* the provider reported some token count in the chunks received
UsageReported(chunks) ==
  \E field \in {"input", "output", "total"} : LastNonAbsent(chunks, field) # None

\* C22: on the span of a pull-style stream that completed normally, the
\* input and output token attributes are present only if a chunk carried
\* that count, and the total only if a chunk carried some count: a stream
\* without usage leaves the span without token attributes.
C22_TokensOnlyIfReported ==
  (op.source = "ended" /\ op.iteration = "completed")
    => /\ spans[op.span].attrs.inputTokens # None
            => LastNonAbsent(op.chunks, "input") # None
       /\ spans[op.span].attrs.outputTokens # None
            => LastNonAbsent(op.chunks, "output") # None
       /\ spans[op.span].attrs.totalTokens # None => UsageReported(op.chunks)

\* C23: the consumer of a wrapped pull-style stream has received exactly the
\* chunks the source has produced, in order and unaltered; its iteration
\* completes exactly when the source is exhausted, and fails exactly when the
\* source threw, with the value the source threw.
C23_WrappedStreamTransparent ==
  (op.streaming /\ op.kind \in Providers /\ op.pc \in {"generator", "finished"})
    => /\ op.delivered = op.chunks
       /\ (op.iteration = "completed") <=> (op.source = "ended")
       /\ (op.iteration = "threw") <=> (op.source = "threw")
       /\ (op.source = "threw") => (op.thrown = op.raised)

\* C24: for a doStream call of a wrapped model whose result has no usage
\* promise, the span is ended exactly when the stream of the result has
\* completed: not while parts are still to be delivered, and once the
\* stream is exhausted.
C24_FinalizedAtStreamCompletion ==
  (op.kind = "vercel" /\ op.outcome = "returned" /\ op.promise = "none")
    => (spans[op.span].ended <=> (op.source = "ended"))

\* C25: when the function run by withContext settles, the scoping span is
\* ended and handed on once; it has status OK when fn returned, and when fn
\* threw it has status ERROR, carries the exception, and withContext rejects
\* with the value fn threw; a span that has ended is not changed again.
C25_ScopeSpanEndedOnce ==
  [][/\ (op.kind = "withContext" /\ op.pc = "awaitingFn" /\ op'.pc = "done")
          => LET sp == spans'[op.span] IN
             /\ sp.ended /\ sp.exported = 1
             /\ IF op'.outcome = "threw"
                THEN /\ sp.status = "ERROR"
                     /\ sp.exception = Some(toError(op'.raised))
                     /\ sp.statusMessage = Some(op'.raised.message)
                     /\ op'.value = op'.raised
                ELSE /\ sp.status = "OK" /\ sp.exception = None
                     /\ op'.raised = NoValue
     /\ (op.kind = "withContext" /\ op.pc = "done" /\ op.span # 0 /\ op' = op)
          => spans'[op.span] = spans[op.span]]_vars

\* C25: withContext rejected with the string its function threw, its span
\* ended with status ERROR and the exception recorded
C25_Witness ==
  /\ op.kind = "withContext"
  /\ op.pc = "done"
  /\ op.outcome = "threw"
  /\ op.value = [kind |-> "string", id |-> "s1", message |-> "boom"]
  /\ op.span # 0
  /\ spans[op.span].ended
  /\ spans[op.span].exported = 1
  /\ spans[op.span].status = "ERROR"
  /\ spans[op.span].exception # None

\* C26: when the operation run inside a wrapper of the SDK has thrown, the
\* span of the call is ended and has status ERROR.
C26_ThrowFinalizesWithError ==
  (op.pc = "done" /\ op.outcome = "threw" /\ op.span # 0)
    => /\ spans[op.span].ended
       /\ spans[op.span].status = "ERROR"

\* C27: a span carries binary content in its prompt or response attribute
\* only under a configuration with both includeContent and
\* includeBinaryContent true.
C27_BinaryContentGated ==
  \A s \in SpanIds :
    ( \/ spans[s].attrs.prompt # None /\ ContainsBinary(spans[s].attrs.prompt[1])
      \/ spans[s].attrs.response # None /\ ContainsBinary(spans[s].attrs.response[1]) )
      => /\ instConfig[instance].includeContent
         /\ instConfig[instance].includeBinaryContent

\* explicit value over environment value over default
Precedence(explicit, fromEnv, default) ==
  IF explicit # None THEN explicit[1]
  ELSE IF fromEnv # None THEN fromEnv[1]
  ELSE default

\* the value of a boolean environment variable, when it is set
EnvFlag(value) == IF value = None THEN None ELSE Some(value[1] \in {"true", "1"})

\* C28: the configuration an init() resolved has, in every field, the
\* explicit value when one was passed, else the value of the environment
\* variable when the field has one and it is set, else the default.
C28_ConfigPrecedence ==
  instance # NoInstance
    => LET a == instArgs[instance]
           c == instConfig[instance]
       IN /\ c.apiKey = Precedence(a.apiKey, env.API_KEY, "")
          /\ c.agentId = Precedence(a.agentId, env.AGENT_ID, "")
          /\ c.includeContent =
               Precedence(a.includeContent, EnvFlag(env.INCLUDE_CONTENT), FALSE)
          /\ c.debug = Precedence(a.debug, EnvFlag(env.DEBUG), FALSE)
          /\ c.includeBinaryContent = Precedence(a.includeBinaryContent, None, FALSE)
          /\ c.batchSize = Precedence(a.batchSize, None, 100)
          /\ c.flushIntervalMs = Precedence(a.flushIntervalMs, None, 5000)
          /\ c.maxRetries = Precedence(a.maxRetries, None, 3)

\* C28: an explicit false for both flags resolved against an environment
\* that turns both on, the key taken from the environment and the numeric
\* fields from the defaults
C28_Witness ==
  /\ instance # NoInstance
  /\ instArgs[instance].includeContent = Some(FALSE)
  /\ instArgs[instance].debug = Some(FALSE)
  /\ instArgs[instance].apiKey = None
  /\ instArgs[instance].batchSize = None
  /\ env.INCLUDE_CONTENT = Some("1")
  /\ env.DEBUG = Some("true")
  /\ getConfig.includeContent = FALSE
  /\ getConfig.debug = FALSE
  /\ getConfig.apiKey = "env-key"
  /\ getConfig.batchSize = 100

\* the earliest violated constraint of init arguments a under environment e,
\* named as the error message names it; "" when all constraints hold
FirstViolation(a, e) ==
  IF Precedence(a.apiKey, e.API_KEY, "") = "" THEN ENV_VARS.API_KEY
  ELSE IF Precedence(a.agentId, e.AGENT_ID, "") = "" THEN ENV_VARS.AGENT_ID
  ELSE IF Precedence(a.batchSize, None, 100) < 1 THEN "batchSize"
  ELSE IF Precedence(a.flushIntervalMs, None, 5000) < 100 THEN "flushIntervalMs"
  ELSE IF Precedence(a.maxRetries, None, 3) < 0 THEN "maxRetries"
  ELSE ""

\* C29: the first init() of a process throws the error of the earliest
\* violated constraint in the order API key, agent id, batch size, flush
\* interval, max retries, and creates an instance with a configuration
\* exactly when no constraint is violated.
C29_FirstViolatedConstraint ==
  initCalls = 1
    => /\ lastInit.error = FirstViolation(lastInit.args, env)
       /\ lastInit.threw <=> (FirstViolation(lastInit.args, env) # "")
       /\ isInitialized <=> (FirstViolation(lastInit.args, env) = "")
       /\ isInitialized => getConfig # NoConfig

\* C29: all three numeric bounds violated with the keys present: the error
\* is the one of the batch size
C29_Witness ==
  /\ initCalls = 1
  /\ lastInit.args.apiKey = Some("explicit-key")
  /\ lastInit.args.agentId = Some("explicit-agent")
  /\ lastInit.args.batchSize = Some(0)
  /\ lastInit.args.flushIntervalMs = Some(99)
  /\ lastInit.args.maxRetries = Some(-1)
  /\ lastInit.threw
  /\ lastInit.error = "batchSize"
  /\ ~isInitialized

\* C30: debug logging follows the runtime override when it is set, whatever
\* the environment says, and the AGENTBASIS_DEBUG variable when it is unset;
\* the override is the debug flag of the configuration from a successful
\* init() until the teardown completes, which resets it to unset.
C30_DebugOverride ==
  [][/\ (runtimeDebugMode' # None) => (debugEnabled' = runtimeDebugMode'[1])
     /\ (runtimeDebugMode' = None) => (debugEnabled' = (env.DEBUG \in {Some("true"), Some("1")}))
     /\ (initCalls' # initCalls /\ ~lastInit'.threw)
          => /\ runtimeDebugMode' = Some(getConfig'.debug)
             /\ debugEnabled' = getConfig'.debug
     /\ \A t \in Callers :
          (teardown[t] # "resolved" /\ teardown'[t] = "resolved")
            => runtimeDebugMode # None /\ runtimeDebugMode' = None]_vars

\* C30: initialized with debug false under an environment that sets
\* AGENTBASIS_DEBUG, after an earlier instance was shut down: the override
\* keeps logging off
C30_Witness ==
  /\ instance = 2
  /\ env.DEBUG = Some("true")
  /\ getConfig.debug = FALSE
  /\ runtimeDebugMode = Some(FALSE)
  /\ ~debugEnabled
  /\ teardown[1] = "resolved"

\* what the first event of the stream asks the span controller to record
FirstEventOptions ==
  LET first == op.chunks[1] IN
  IF first.type = "error"
  THEN [NoOptions EXCEPT !.error = first.error, !.prompt = Some(MessagesPayload),
                         !.streamed = Some(TRUE)]
  ELSE LET input == IF first.usage = None THEN 0 ELSE 3
           output == IF first.usage = None THEN 0 ELSE 1 IN
       [NoOptions EXCEPT
          !.inputTokens = Some(input), !.outputTokens = Some(output),
          !.totalTokens = Some(input + output),
          !.prompt = Some(MessagesPayload),
          !.response = IF first.type = "message"
                       THEN Some([id |-> "message", serializable |-> first.serializable])
                       ELSE None,
          !.streamed = Some(TRUE)]

\* C31: for the push-style Anthropic stream wrapper, whatever events arrive
\* and however often, also from within the finalization itself, endLLMSpan
\* is called on the span once only, and once it has been called it was
\* called with the options of the first event that arrived
C31_PushFinalizedOnceByFirstEvent ==
  (op.kind = "anthropic.stream" /\ op.outcome = "returned")
    => /\ spans[op.span].endCalls <= 1
       /\ (op.chunks # <<>> /\ op.pc = "listening")
            => /\ spans[op.span].endCalls = 1
               /\ lastEnd.span = op.span
               /\ lastEnd.options = FirstEventOptions
       /\ (op.chunks # <<>>) <=> op.ended

\* C31: an 'error' event arrived first, then a 'message' with usage and an
\* 'end'; the span was finalized once,
\* with the error
C31_Witness ==
  /\ op.kind = "anthropic.stream"
  /\ op.pc = "listening"
  /\ Len(op.chunks) = 3
  /\ op.chunks[1].type = "error"
  /\ op.chunks[2].type = "message"
  /\ op.chunks[2].usage # None
  /\ op.chunks[3].type = "end"
  /\ spans[op.span].endCalls = 1
  /\ spans[op.span].exported = 1
  /\ spans[op.span].status = "ERROR"
  /\ spans[op.span].attrs.inputTokens = None

\* C32: trackStreamingCall ends its span at most once: a span that a
\* completion path has ended is left as it is by every later step, and it
\* carries the status of the path that fired: OK after the usage promise
\* resolved or the text stream completed, ERROR with the reason recorded
\* after the usage promise rejected or the text stream threw
C32_TrackedStreamEndedOnce ==
  [][(op.kind = "vercel.stream" /\ op.span # 0)
       => LET sp == spans'[op.span] IN
          /\ sp.exported <= 1
          /\ spans[op.span].ended => sp = spans[op.span]
          /\ (op'.span = op.span /\ (op'.promise = "resolved" \/ op'.iteration = "completed"))
               => sp.ended /\ sp.status = "OK" /\ sp.exception = None
          /\ (op'.span = op.span /\ op'.promise = "rejected")
               => /\ sp.ended /\ sp.status = "ERROR"
                  /\ sp.exception = Some(op'.raised)
          /\ (op'.span = op.span /\ op'.iteration = "threw")
               => /\ sp.ended /\ sp.status = "ERROR"
                  /\ sp.exception = Some(toError(op'.raised))
                  /\ op'.thrown = op'.raised]_vars

\* C32: the text stream wrapped by trackStreamingCall threw a string after a
\* chunk; the span was ended once with status ERROR and the consumer was
\* asked again
C32_Witness ==
  /\ op.kind = "vercel.stream"
  /\ op.span # 0
  /\ op.iteration = "threw"
  /\ op.raised.kind = "string"
  /\ Len(op.delivered) = 1
  /\ op.pulls = 1
  /\ op.ended
  /\ spans[op.span].exported = 1
  /\ spans[op.span].status = "ERROR"
  /\ spans[op.span].statusMessage = Some("boom")

\* the kinds of call that are an end or error callback of the handler
EndCallbacks ==
  {"langchain.llmEnd", "langchain.llmError", "langchain.chainEnd", "langchain.chainError"}

\* C33: in the LangChain callback handler no span the Map holds has been
\* ended, no callback changes a span that has been ended, and an end or
\* error callback for a run id without a span in the Map (its span already
\* ended, or never started) returns without effect
C33_CallbackEndsOncePerRun ==
  /\ \A r \in RunIds : handler.spans[r] # 0 => ~spans[handler.spans[r]].ended
  /\ [][/\ \A s \in SpanIds : spans[s].ended => spans'[s] = spans[s]
        /\ (op' # op /\ op'.kind \in EndCallbacks /\ handler.spans[op'.runId] = 0)
             => /\ spans' = spans
                /\ handler' = handler
                /\ op'.outcome = "returned"]_vars

\* C33: after both runs were started and ended, an end callback came again
\* for run-1 and an error callback for run-2, and changed neither span
C33_Witness ==
  /\ handler.enabled
  /\ \A r \in RunIds : handler.spans[r] = 0
  /\ spanCount = 2
  /\ \A s \in SpanIds : spans[s].ended /\ spans[s].exported = 1
  /\ spans[1].endCalls = 1
  /\ spans[1].attrs.runId = Some("run-1")
  /\ spans[2].attrs.runId = Some("run-2")
  /\ spans[1].status = "OK"
  /\ op.kind = "langchain.chainError"
  /\ op.runId = "run-2"
  /\ op.span = 0
  /\ op.outcome = "returned"

\* C34: a span started by startSpan or startLLMSpan in a call tree that is
\* inside a withContext scope is a child of the scoping span of the innermost
\* scope open at that moment, one started outside any scope is a root span,
\* and an LLM span has its provider, model and agent id from creation
C34_SpanParentedToScope ==
  [][(op' # op /\ op'.kind \in {"startSpan", "startLLMSpan"})
       => LET t == op'.tree
              sp == spans'[op'.span] IN
          /\ op'.outcome = "returned"
          /\ sp.started /\ ~sp.ended
          /\ sp.parent = IF scopes[t] = <<>> THEN None
                         ELSE Some(scopeSpan(t, Len(scopes[t])))
          /\ sp.attrs.agentId = Some(instConfig[instance].agentId)
          /\ op'.kind = "startLLMSpan"
               => /\ sp.attrs.provider # None
                  /\ sp.attrs.model = Some(ModelOf(sp.attrs.provider[1]))]_vars

\* C35: each call of a function wrapped by trace() starts one span, and when
\* the function has returned, thrown, or its promise has been fulfilled or
\* rejected, that span is ended, exported once and not touched again, and
\* the caller has the function's own value or the value it threw
C35_TracedFunctionEndsOnce ==
  [][/\ (op' # op /\ op'.kind = "trace" /\ op'.pc = "awaitingFn")
          => /\ spanCount' = spanCount + 1
             /\ op'.span = spanCount'
             /\ ~spans'[op'.span].ended
     /\ (op' # op /\ op'.kind = "trace" /\ op'.pc = "done")
          => LET sp == spans'[op'.span] IN
             /\ spanCount' = IF op.pc = "awaitingFn" THEN spanCount ELSE spanCount + 1
             /\ op'.span = spanCount'
             /\ sp.ended /\ sp.exported = 1
             /\ IF op'.outcome = "threw"
                THEN /\ op'.value = op'.raised
                     /\ op'.value \in {o.value : o \in {f \in FnOutcomes : f.threw}}
                     /\ sp.status = "ERROR"
                ELSE /\ op'.value \in {o.value : o \in {f \in FnOutcomes : ~f.threw}}
                     /\ sp.status = "OK"
     /\ \A s \in SpanIds : spans[s].ended => spans'[s] = spans[s]]_vars

\* C35: two calls of a traced function, the first ended with status OK, the
\* second threw a string, which the caller received, and its span was ended
\* once with status ERROR
C35_Witness ==
  /\ op.kind = "trace"
  /\ op.pc = "done"
  /\ op.span = 2
  /\ op.outcome = "threw"
  /\ op.value = [kind |-> "string", id |-> "s1", message |-> "boom"]
  /\ spans[1].ended /\ spans[1].status = "OK" /\ spans[1].exported = 1
  /\ spans[2].ended /\ spans[2].status = "ERROR" /\ spans[2].exported = 1
  /\ spans[2].exception = Some([kind |-> "Error", id |-> "wrapped", message |-> "boom"])

\* C36: when init() has returned an instance while a teardown was in flight
\* and that teardown and its shutdown() call have completed, with no other
\* shutdown() call made, the SDK is initialized with the instance init()
\* returned
C36_InitDuringShutdownSurvives ==
  LET t == lastInit.during IN
  ( /\ t # NoPromise
    /\ ~lastInit.threw
    /\ teardown[t] = "resolved"
    /\ callers[t].pc = "done"
    /\ \A c \in Callers : callers[c].pc = "idle" \/ callers[c].t = t )
    => /\ isInitialized
       /\ instance = lastInit.ret

\* a teardown is running: its body has not yet run to its end
Running(t) == teardown[t] \in {"draining", "settled"}

\* C37: shutdownPromise is set only while the teardown it memoizes is
\* running, and a shutdown() call made on an initialized SDK that returned
\* the memoized teardown returned the teardown of the instance it was made on
C37_MemoOnlyWhileRunning ==
  /\ shutdownPromise # NoPromise => Running(shutdownPromise)
  /\ \A c \in Callers :
       (callers[c].pc \in {"joined", "done"} /\ callers[c].inst # NoInstance)
         => /\ callers[c].t # NoPromise
            /\ callers[callers[c].t].inst = callers[c].inst

\* the promise of shutdown() invocation c is pending
Pending(c) == callers[c].pc \in {"owner", "joined"}

\* every pending shutdown() promise settles
ShutdownSettles == \A c \in Callers : Pending(c) ~> (callers[c].pc = "done")

\* C40: every shutdown() call eventually resolves, and when it resolves with
\* no init() made since it was issued, isInitialized() is false and the debug
\* override is reset, whether the exporter's shutdown succeeded or failed; the
\* call that started the teardown leaves no memoized teardown behind.
C40_ShutdownAlwaysCompletes ==
  /\ ShutdownSettles
  /\ [][\A c \in Callers :
          (Completes(c) /\ instance' \in {NoInstance, callers'[c].inst})
            => /\ ~isInitialized'
               /\ runtimeDebugMode' = None
               /\ callers[c].pc = "owner" => shutdownPromise' = NoPromise]_vars

\* C38: the span of a wrapper generator the consumer holds is eventually
\* ended, whether the consumer runs the stream to its end or to an error or
\* stops iterating before that
C38_PullSpanEventuallyEnded ==
  \A s \in SpanIds : (op.pc = "generator" /\ op.span = s) ~> spans[s].ended

\* C39: the method at every place instrument() patches is one wrapper around
\* the SDK's own method while the provider is instrumented, and the SDK's
\* own method otherwise: uninstrument() undoes instrument(), and instrument()
\* on an instrumented provider patches nothing
C39_InstrumentRoundTrip ==
  \A provider \in Providers : \A site \in SitesOf(provider) :
    prototypes.method[site] = IF isInstrumented[provider] THEN 1 ELSE 0

====
